---- MODULE Spec2Model ----
(***************************************************************************)
(* Registry publishing: the version model (scripts/lib/version_compare.py), *)
(* the upsert decision and merge engine (scripts/lib/registry_merge.py),    *)
(* the remote store client (scripts/lib/s3_operations.py) and the upsert    *)
(* and remove workflows (scripts/registry-upsert.py, registry-remove.py).   *)
(*                                                                         *)
(* A version is the tuple of its release segments (1.2.0 is <<1, 2, 0>>).   *)
(* A constraint is the sequence of its comma-separated clauses, each a      *)
(* record [op, ver]; the empty sequence is the missing or empty             *)
(* kamiwaza_version (both are falsy in the code).  An entry is a record     *)
(* [name, version, kamiwaza_version].                                       *)
(*                                                                         *)
(* The store prefix garden/<garden_dir>/ holds apps.json, tools.json and    *)
(* the lock marker registry.lock; the image directories are left out.  A    *)
(* download is a snapshot of the prefix into a directory that held nothing  *)
(* before (a fresh build directory), so the backup of a live run is what    *)
(* the prefix held at its download, the run's own marker included.  Every   *)
(* aws call either succeeds or fails; a sync to the prefix may also fail    *)
(* part-way, or exit 0 without every object holding what was sent.          *)
(***************************************************************************)
EXTENDS Integers, Sequences, FiniteSets, TLC

VARIABLES
    \* merge engine, called on its own
    m_local,        \* merge_entries: local_entries
    m_remote,       \* merge_entries: remote_entries
    m_version,      \* merge_entries: garden_version
    m_force,        \* merge_entries: force_entries
    m_result,       \* merge_entries: the MergeResult returned
    m_called,       \* whether merge_entries has returned
    \* compare_constraints, called on its own
    cc_c1,          \* compare_constraints: c1
    cc_c2,          \* compare_constraints: c2
    cc_result,      \* compare_constraints: the ConstraintRelationship returned, "" before
    \* _determine_upsert_action, called on its own
    du_args,        \* its arguments: local_entry, existing, garden_version, force_entries
    du_result,      \* the UpsertResult returned
    du_called,      \* whether it has returned
    \* the remote store and the workflow runs
    remote,         \* objects under garden/<garden_dir>/: apps.json, tools.json, registry.lock
    repo_version,   \* --repo-version of the catalog the runs target
    runs,           \* number of runs started so far
    pc,             \* position of each run in main()
    mode,           \* "upsert" (registry-upsert.py) or "remove" (registry-remove.py)
    dry_run,        \* --dry-run
    local,          \* the local registry directory garden/<garden_dir> of an upsert
    force_name,     \* --force-name, "" when not given
    rm_name,        \* --name of a remove
    lock_acquired,  \* main(): lock_acquired
    had_error,      \* main(): had_error
    exit_code,      \* pending SystemExit code, then the exit status; -1 while there is none
    backup_path,    \* main(): backup_path and the directory it names
    remote_path,    \* main(): remote_path and the directory it names
    output_path,    \* main(): output_path and the directory it names
    work_dir,       \* whether the mkdtemp working directory exists
    working_path,   \* what build/registry-backups/remote/<garden_dir> holds on the machine
    log,            \* the action log handed to the merge summary
    ops,            \* remote store calls of the run so far, with their outcomes
    start_remote,   \* the remote store as it was when the run started
    prev_dry        \* what the last dry run of an upsert before this run was given and showed

cvars == <<cc_c1, cc_c2, cc_result, du_args, du_result, du_called>>

mvars == <<m_local, m_remote, m_version, m_force, m_result, m_called, cvars>>

wvars == <<remote, repo_version, runs, pc, mode, dry_run, local, force_name, rm_name,
           lock_acquired, had_error, exit_code, backup_path, remote_path, output_path,
           work_dir, working_path, log, ops, start_remote, prev_dry>>

vars == <<mvars, wvars>>

-----------------------------------------------------------------------------
(* Version model: scripts/lib/version_compare.py                            *)

\* packaging.version.Version drops trailing zero segments before comparing
RECURSIVE StripZeros(_)
StripZeros(r) ==
    IF r = <<>> THEN <<>>
    ELSE IF r[Len(r)] = 0 THEN StripZeros(SubSeq(r, 1, Len(r) - 1))
    ELSE r

\* tuple order on release segments: -1, 0, 1
RECURSIVE TupleCmp(_, _)
TupleCmp(a, b) ==
    IF a = <<>> /\ b = <<>> THEN 0
    ELSE IF a = <<>> THEN -1
    ELSE IF b = <<>> THEN 1
    ELSE IF Head(a) < Head(b) THEN -1
    ELSE IF Head(a) > Head(b) THEN 1
    ELSE TupleCmp(Tail(a), Tail(b))

VersionCmp(v1, v2) == TupleCmp(StripZeros(v1), StripZeros(v2))

compare_versions(v1, v2) ==
    IF VersionCmp(v1, v2) > 0 THEN "newer"
    ELSE IF VersionCmp(v1, v2) < 0 THEN "older"
    ELSE "same"

\* range(3), range(20), range(5) of generate_test_versions
LatticeMajors == 3
LatticeMinors == 20
LatticePatches == 5

SpecificVersions ==
    { <<0, 8, 0>>, <<0, 8, 1>>, <<0, 9, 0>>, <<0, 9, 5>>, <<0, 10, 0>>,
      <<1, 0, 0>>, <<1, 0, 1>>, <<1, 1, 0>>, <<1, 2, 0>> }

generate_test_versions ==
    { <<ma, mi, pa>> : ma \in 0..(LatticeMajors - 1),
                       mi \in 0..(LatticeMinors - 1),
                       pa \in 0..(LatticePatches - 1) }
    \cup SpecificVersions

get_test_versions == generate_test_versions

\* one clause of a SpecifierSet applied to a release version
ClauseContains(cl, v) ==
    CASE cl.op = ">=" -> VersionCmp(v, cl.ver) >= 0
      [] cl.op = "<=" -> VersionCmp(v, cl.ver) <= 0
      [] cl.op = ">"  -> VersionCmp(v, cl.ver) > 0
      [] cl.op = "<"  -> VersionCmp(v, cl.ver) < 0
      [] cl.op = "==" -> VersionCmp(v, cl.ver) = 0
      [] cl.op = "!=" -> VersionCmp(v, cl.ver) # 0

\* version in SpecifierSet: every clause holds
SpecContains(c, v) == \A i \in 1..Len(c) : ClauseContains(c[i], v)

Ge(v) == [op |-> ">=", ver |-> v]
Lt(v) == [op |-> "<", ver |-> v]

\* the constraint strings of the model
C_08_09 == << Ge(<<0, 8, 0>>), Lt(<<0, 9, 0>>) >>     \* ">=0.8.0,<0.9.0"
C_09_10 == << Ge(<<0, 9, 0>>), Lt(<<1, 0, 0>>) >>     \* ">=0.9.0,<1.0.0"
C_08_10 == << Ge(<<0, 8, 0>>), Lt(<<1, 0, 0>>) >>     \* ">=0.8.0,<1.0.0"
C_08_095 == << Ge(<<0, 8, 0>>), Lt(<<0, 9, 5>>) >>    \* ">=0.8.0,<0.9.5"
NoConstraint == <<>>

\* version strings of the model
V_100 == <<1, 0, 0>>
V_110 == <<1, 1, 0>>
V_10 == <<1, 0>>

ConstraintUniverse == { C_08_09, C_09_10, C_08_10, C_08_095 }

\* further constraint strings: open ranges, single versions, a range no version
\* satisfies, ranges beyond the sampled versions, a range between two of them
C_ge08 == << Ge(<<0, 8, 0>>) >>                          \* ">=0.8.0"
C_ge09 == << Ge(<<0, 9, 0>>) >>                          \* ">=0.9.0"
C_lt09 == << Lt(<<0, 9, 0>>) >>                          \* "<0.9.0"
C_eq080 == << [op |-> "==", ver |-> <<0, 8, 0>>] >>      \* "==0.8.0"
C_080_0801 == << Ge(<<0, 8, 0>>), Lt(<<0, 8, 1>>) >>     \* ">=0.8.0,<0.8.1"
C_ne090 == << [op |-> "!=", ver |-> <<0, 9, 0>>] >>      \* "!=0.9.0"
C_none == << Ge(<<1, 0, 0>>), Lt(<<0, 9, 0>>) >>         \* ">=1.0.0,<0.9.0"
C_ge5 == << Ge(<<5, 0, 0>>) >>                           \* ">=5.0.0"
C_ge6 == << Ge(<<6, 0, 0>>) >>                           \* ">=6.0.0"
C_gap == << [op |-> ">", ver |-> <<0, 8, 4>>], Lt(<<0, 9, 0>>) >>   \* ">0.8.4,<0.9.0"

MoreConstraints ==
    { C_ge08, C_ge09, C_lt09, C_eq080, C_080_0801, C_ne090, C_none, C_ge5, C_ge6, C_gap }

AllConstraints == ConstraintUniverse \cup MoreConstraints

\* the sampled membership set of each constraint, evaluated once
Members == [c \in AllConstraints |-> { v \in get_test_versions : SpecContains(c, v) }]

parse_constraint(c) == Members[c]

constraints_overlap(c1, c2) ==
    \E v \in get_test_versions : v \in parse_constraint(c1) /\ v \in parse_constraint(c2)

is_superset(c1, c2) ==
    ~ \E v \in get_test_versions : v \in parse_constraint(c2) /\ v \notin parse_constraint(c1)

is_subset(c1, c2) == is_superset(c2, c1)

constraints_equal(c1, c2) ==
    \A v \in get_test_versions : (v \in parse_constraint(c1)) = (v \in parse_constraint(c2))

\* variant of compare_constraints without the SUBSET branch
compare_constraints_no_subset(c1, c2) ==
    IF constraints_equal(c1, c2) THEN "same"
    ELSE IF ~ constraints_overlap(c1, c2) THEN "disjoint"
    ELSE IF is_superset(c1, c2) /\ ~ is_superset(c2, c1) THEN "superset"
    ELSE "partial"

\* variant of compare_constraints testing overlap before equality
compare_constraints_overlap_first(c1, c2) ==
    IF ~ constraints_overlap(c1, c2) THEN "disjoint"
    ELSE IF constraints_equal(c1, c2) THEN "same"
    ELSE IF is_superset(c1, c2) /\ ~ is_superset(c2, c1) THEN "superset"
    ELSE IF is_superset(c2, c1) /\ ~ is_superset(c1, c2) THEN "subset"
    ELSE "partial"

\* the relationship of each pair of constraints, as compare_constraints derives it,
\* evaluated once
Relationships ==
    [c1 \in AllConstraints |-> [c2 \in AllConstraints |->
        IF constraints_equal(c1, c2) THEN "same"
        ELSE IF ~ constraints_overlap(c1, c2) THEN "disjoint"
        ELSE IF is_superset(c1, c2) /\ ~ is_superset(c2, c1) THEN "superset"
        ELSE IF is_superset(c2, c1) /\ ~ is_superset(c1, c2) THEN "subset"
        ELSE "partial"]]

compare_constraints(c1, c2) == Relationships[c1][c2]

-----------------------------------------------------------------------------
(* Upsert decision engine: scripts/lib/registry_merge.py                    *)

Entry(n, v, kv) == [name |-> n, version |-> v, kamiwaza_version |-> kv]

NoEntry == Entry("", <<>>, <<>>)

\* an error string, as the message and the entries whose fields it formats
Error(msg, new, old) == [msg |-> msg, entry |-> new, existing |-> old]

NoError == Error("", NoEntry, NoEntry)

UpsertResult(name, action, reason, new_entry, replaced_entries, error) ==
    [name |-> name, action |-> action, reason |-> reason, new_entry |-> new_entry,
     replaced_entries |-> replaced_entries, error |-> error]

\* variant of determine_upsert_action_v1: an equal version is replaced as well
determine_upsert_action_v1_mutable(new_entry, existing_entries) ==
    IF existing_entries = <<>>
    THEN UpsertResult(new_entry.name, "insert", "New extension", new_entry, <<>>, NoError)
    ELSE IF compare_versions(new_entry.version, existing_entries[1].version) \in {"newer", "same"}
    THEN UpsertResult(new_entry.name, "replace", "Version upgrade", new_entry,
                      <<existing_entries[1]>>, NoError)
    ELSE UpsertResult(new_entry.name, "fail", "Cannot downgrade", new_entry,
                      <<>>, Error("Cannot downgrade", new_entry, existing_entries[1]))

\* variant of determine_upsert_action_v1: an older version replaces as well
determine_upsert_action_v1_downgrade(new_entry, existing_entries) ==
    IF existing_entries = <<>>
    THEN UpsertResult(new_entry.name, "insert", "New extension", new_entry, <<>>, NoError)
    ELSE IF compare_versions(new_entry.version, existing_entries[1].version) \in {"newer", "older"}
    THEN UpsertResult(new_entry.name, "replace", "Version change", new_entry,
                      <<existing_entries[1]>>, NoError)
    ELSE UpsertResult(new_entry.name, "fail", "already exists (immutable)", new_entry,
                      <<>>, Error("Cannot mutate existing version", new_entry, NoEntry))

determine_upsert_action_v1(new_entry, existing_entries) ==
    IF existing_entries = <<>>
    THEN UpsertResult(new_entry.name, "insert", "New extension", new_entry, <<>>, NoError)
    ELSE LET existing == existing_entries[1]
             comparison == compare_versions(new_entry.version, existing.version)
         IN  IF comparison = "newer"
             THEN UpsertResult(new_entry.name, "replace", "Version upgrade", new_entry,
                               <<existing>>, NoError)
             ELSE IF comparison = "same"
             THEN UpsertResult(new_entry.name, "fail", "already exists (immutable)", new_entry,
                               <<>>, Error("Cannot mutate existing version", new_entry, NoEntry))
             ELSE UpsertResult(new_entry.name, "fail", "Cannot downgrade", new_entry,
                               <<>>, Error("Cannot downgrade", new_entry, existing))

\* the loop over existing_entries of determine_upsert_action_v2, from index i on
RECURSIVE V2Loop(_, _, _, _)
V2Loop(new_entry, existing_entries, i, entries_to_replace) ==
    IF i > Len(existing_entries)
    THEN IF entries_to_replace # <<>>
         THEN UpsertResult(new_entry.name, "replace", "Replacing entry(ies)", new_entry,
                           entries_to_replace, NoError)
         ELSE UpsertResult(new_entry.name, "insert", "Disjoint kamiwaza_version", new_entry,
                           <<>>, NoError)
    ELSE LET existing == existing_entries[i]
         IN  IF existing.kamiwaza_version = NoConstraint
             THEN UpsertResult(new_entry.name, "fail", "Existing entry missing kamiwaza_version",
                               new_entry, <<>>,
                               Error("Existing entry is malformed (no kamiwaza_version)",
                                     new_entry, NoEntry))
             ELSE LET relationship == compare_constraints(new_entry.kamiwaza_version,
                                                          existing.kamiwaza_version)
                      version_cmp == compare_versions(new_entry.version, existing.version)
                  IN  CASE relationship = "disjoint" ->
                             V2Loop(new_entry, existing_entries, i + 1, entries_to_replace)
                        [] relationship = "same" ->
                             IF version_cmp = "newer"
                             THEN V2Loop(new_entry, existing_entries, i + 1,
                                         Append(entries_to_replace, existing))
                             ELSE IF version_cmp = "same"
                             THEN UpsertResult(new_entry.name, "fail", "already exists",
                                               new_entry, <<>>,
                                               Error("Cannot mutate existing version",
                                                     new_entry, NoEntry))
                             ELSE UpsertResult(new_entry.name, "fail", "Cannot downgrade",
                                               new_entry, <<>>,
                                               Error("Cannot downgrade", new_entry, existing))
                        [] relationship = "superset" ->
                             V2Loop(new_entry, existing_entries, i + 1,
                                    Append(entries_to_replace, existing))
                        [] relationship = "subset" ->
                             UpsertResult(new_entry.name, "fail", "Would narrow support",
                                          new_entry, <<>>,
                                          Error("Cannot narrow kamiwaza_version",
                                                new_entry, existing))
                        [] relationship = "partial" ->
                             UpsertResult(new_entry.name, "fail", "Partial overlap",
                                          new_entry, <<>>,
                                          Error("Partial overlap requires manual resolution",
                                                new_entry, existing))

\* variant of determine_upsert_action_v2: only the first existing entry is examined
determine_upsert_action_v2_first_only(new_entry, existing_entries) ==
    IF new_entry.kamiwaza_version = NoConstraint
    THEN UpsertResult(new_entry.name, "fail", "Missing kamiwaza_version", new_entry, <<>>,
                      Error("v2 registry requires kamiwaza_version field", NoEntry, NoEntry))
    ELSE IF existing_entries = <<>>
    THEN UpsertResult(new_entry.name, "insert", "New extension", new_entry, <<>>, NoError)
    ELSE V2Loop(new_entry, <<existing_entries[1]>>, 1, <<>>)

\* variant of determine_upsert_action_v2: a candidate whose constraint is a SUBSET of an
\* existing one replaces the existing entries
determine_upsert_action_v2_narrowing(new_entry, existing_entries) ==
    IF new_entry.kamiwaza_version = NoConstraint
    THEN UpsertResult(new_entry.name, "fail", "Missing kamiwaza_version", new_entry, <<>>,
                      Error("v2 registry requires kamiwaza_version field", NoEntry, NoEntry))
    ELSE IF existing_entries = <<>>
    THEN UpsertResult(new_entry.name, "insert", "New extension", new_entry, <<>>, NoError)
    ELSE IF \E i \in 1..Len(existing_entries) :
               /\ existing_entries[i].kamiwaza_version # NoConstraint
               /\ compare_constraints(new_entry.kamiwaza_version,
                                      existing_entries[i].kamiwaza_version) = "subset"
    THEN UpsertResult(new_entry.name, "replace", "Replacing entry(ies)", new_entry,
                      existing_entries, NoError)
    ELSE V2Loop(new_entry, existing_entries, 1, <<>>)

\* variant of determine_upsert_action_v2: a REPLACE replaces every existing entry
determine_upsert_action_v2_replace_all(new_entry, existing_entries) ==
    IF new_entry.kamiwaza_version = NoConstraint
    THEN UpsertResult(new_entry.name, "fail", "Missing kamiwaza_version", new_entry, <<>>,
                      Error("v2 registry requires kamiwaza_version field", NoEntry, NoEntry))
    ELSE IF existing_entries = <<>>
    THEN UpsertResult(new_entry.name, "insert", "New extension", new_entry, <<>>, NoError)
    ELSE IF V2Loop(new_entry, existing_entries, 1, <<>>).action = "replace"
    THEN UpsertResult(new_entry.name, "replace", "Replacing entry(ies)", new_entry,
                      existing_entries, NoError)
    ELSE V2Loop(new_entry, existing_entries, 1, <<>>)

determine_upsert_action_v2(new_entry, existing_entries) ==
    IF new_entry.kamiwaza_version = NoConstraint
    THEN UpsertResult(new_entry.name, "fail", "Missing kamiwaza_version", new_entry, <<>>,
                      Error("v2 registry requires kamiwaza_version field", NoEntry, NoEntry))
    ELSE IF existing_entries = <<>>
    THEN UpsertResult(new_entry.name, "insert", "New extension", new_entry, <<>>, NoError)
    ELSE V2Loop(new_entry, existing_entries, 1, <<>>)

\* variant of determine_upsert_action_forced: only the first existing entry is replaced
determine_upsert_action_forced_first(new_entry, existing_entries) ==
    IF existing_entries = <<>>
    THEN UpsertResult(new_entry.name, "insert", "New extension (forced)", new_entry,
                      <<>>, NoError)
    ELSE UpsertResult(new_entry.name, "replace", "Forced replace", new_entry,
                      <<existing_entries[1]>>, NoError)

determine_upsert_action_forced(new_entry, existing_entries) ==
    IF existing_entries = <<>>
    THEN UpsertResult(new_entry.name, "insert", "New extension (forced)", new_entry,
                      <<>>, NoError)
    ELSE UpsertResult(new_entry.name, "replace", "Forced replace", new_entry,
                      existing_entries, NoError)

determine_upsert_action(local_entry, existing, garden_version, force_entries) ==
    IF local_entry.name \in force_entries
    THEN determine_upsert_action_forced(local_entry, existing)
    ELSE IF garden_version \in {"v1", "default"}
    THEN determine_upsert_action_v1(local_entry, existing)
    ELSE determine_upsert_action_v2(local_entry, existing)

-----------------------------------------------------------------------------
(* Merge engine: scripts/lib/registry_merge.py                              *)

SelectByName(entries, name) == SelectSeq(entries, LAMBDA e : e.name = name)

EntryKey(e) == <<e.name, e.version, e.kamiwaza_version>>

SeqRange(s) == { s[i] : i \in 1..Len(s) }

MergeResult(success, merged_entries, actions, errors) ==
    [success |-> success, merged_entries |-> merged_entries, actions |-> actions,
     errors |-> errors]

\* result.error or result.reason
ErrorOrReason(result) ==
    IF result.error # NoError THEN result.error
    ELSE Error(result.reason, NoEntry, NoEntry)

\* the loop over local_entries: the decision for every candidate, in batch order
Decisions(local_entries, remote_entries, garden_version, force_entries) ==
    [i \in 1..Len(local_entries) |->
        determine_upsert_action(local_entries[i],
                                SelectByName(remote_entries, local_entries[i].name),
                                garden_version, force_entries)]

\* variant of MergeDecided: a REPLACE removes every remote entry of the candidate's name
MergeDecidedByName(remote_entries, actions) ==
    LET failed == SelectSeq(actions, LAMBDA a : a.action = "fail")
        names_to_remove ==
            { actions[i].name : i \in { j \in 1..Len(actions) : actions[j].action = "replace" } }
        kept == SelectSeq(remote_entries, LAMBDA e : e.name \notin names_to_remove)
        added == SelectSeq(actions, LAMBDA a : a.action \in {"insert", "replace"})
    IN  IF failed # <<>>
        THEN MergeResult(FALSE, <<>>, actions, [i \in 1..Len(failed) |-> ErrorOrReason(failed[i])])
        ELSE MergeResult(TRUE, kept \o [i \in 1..Len(added) |-> added[i].new_entry],
                         actions, <<>>)

\* the rest of merge_entries, once the decisions are taken
MergeDecided(remote_entries, actions) ==
    LET failed == SelectSeq(actions, LAMBDA a : a.action = "fail")
        entries_to_remove ==
            UNION { { EntryKey(r) : r \in SeqRange(actions[i].replaced_entries) } :
                    i \in { j \in 1..Len(actions) : actions[j].action = "replace" } }
        kept == SelectSeq(remote_entries, LAMBDA e : EntryKey(e) \notin entries_to_remove)
        added == SelectSeq(actions, LAMBDA a : a.action \in {"insert", "replace"})
    IN  IF failed # <<>>
        THEN MergeResult(FALSE, <<>>, actions, [i \in 1..Len(failed) |-> ErrorOrReason(failed[i])])
        ELSE MergeResult(TRUE, kept \o [i \in 1..Len(added) |-> added[i].new_entry],
                         actions, <<>>)

\* merge_entries giving up at the first FAIL decision
MergeDecidedFirstFail(remote_entries, all) ==
    LET fails == { i \in 1..Len(all) : all[i].action = "fail" }
        first == IF fails = {} THEN Len(all) ELSE CHOOSE i \in fails : \A j \in fails : i <= j
    IN  IF fails # {}
        THEN MergeResult(FALSE, <<>>, SubSeq(all, 1, first), <<ErrorOrReason(all[first])>>)
        ELSE MergeDecided(remote_entries, all)

merge_entries_first_fail(local_entries, remote_entries, garden_version, force_entries) ==
    MergeDecidedFirstFail(remote_entries,
                          Decisions(local_entries, remote_entries, garden_version, force_entries))

merge_entries(local_entries, remote_entries, garden_version, force_entries) ==
    MergeDecided(remote_entries,
                 Decisions(local_entries, remote_entries, garden_version, force_entries))

-----------------------------------------------------------------------------
(* Files, directories and the registry functions that read and write them   *)

\* a JSON file holding a list of entries, or no file
File(entries) == [present |-> TRUE, entries |-> entries]
AbsentFile == [present |-> FALSE, entries |-> <<>>]

\* the lock marker object: its content kind and, for a record, who wrote it
Marker(kind, owner) == [present |-> TRUE, kind |-> kind, owner |-> owner]
NoMarker == [present |-> FALSE, kind |-> "", owner |-> ""]

\* the objects of a directory or of the remote prefix garden/<garden_dir>/
Dir(apps, tools, lock) == [apps |-> apps, tools |-> tools, lock |-> lock]
EmptyDir == Dir(AbsentFile, AbsentFile, NoMarker)

\* a Path variable of main(): None, or a path and the directory found there
PathTo(dir) == [set |-> TRUE, dir |-> dir]
NonePath == [set |-> FALSE, dir |-> EmptyDir]

Catalog(dir) == <<dir.apps, dir.tools>>

load_registry_json(file) == IF ~ file.present THEN <<>> ELSE file.entries

save_registry_json(entries) == File(entries)

\* a version string the code accepts: not empty
validate_version(version) == version # <<>>

\* the errors of one entry; a version of <<>> is the empty version string
validate_entry(entry, garden_version) ==
    (IF ~ validate_version(entry.version) THEN <<"Invalid version">> ELSE <<>>)
    \o (IF garden_version = "v2" /\ entry.kamiwaza_version = NoConstraint
        THEN <<"v2 registry requires kamiwaza_version field">> ELSE <<>>)

RECURSIVE EntryErrors(_, _, _, _)
EntryErrors(file_name, entries, i, garden_version) ==
    IF i > Len(entries) THEN <<>>
    ELSE LET errs == validate_entry(entries[i], garden_version)
         IN  [k \in 1..Len(errs) |-> <<file_name, i - 1, errs[k]>>]
             \o EntryErrors(file_name, entries, i + 1, garden_version)

\* variant of validate_local_registry: the first error found is the only one reported
validate_local_registry_first_error(local_dir, garden_version) ==
    LET all == IF ~ local_dir.apps.present /\ ~ local_dir.tools.present
               THEN << <<"", 0, "No apps.json or tools.json found">> >>
               ELSE EntryErrors("apps.json", load_registry_json(local_dir.apps), 1,
                                garden_version)
                    \o EntryErrors("tools.json", load_registry_json(local_dir.tools), 1,
                                   garden_version)
    IN  IF all = <<>> THEN <<>> ELSE <<all[1]>>

\* the error list of validate_local_registry; the registry is valid when it is empty
validate_local_registry(local_dir, garden_version) ==
    IF ~ local_dir.apps.present /\ ~ local_dir.tools.present
    THEN << <<"", 0, "No apps.json or tools.json found">> >>
    ELSE (IF local_dir.apps.present
          THEN EntryErrors("apps.json", load_registry_json(local_dir.apps), 1, garden_version)
          ELSE <<>>)
         \o (IF local_dir.tools.present
             THEN EntryErrors("tools.json", load_registry_json(local_dir.tools), 1,
                              garden_version)
             ELSE <<>>)

\* variant of MergedRegistries: each merged list that succeeded is written
MergedRegistriesEach(apps_result, tools_result) ==
    [success |-> apps_result.success /\ tools_result.success,
     apps_result |-> apps_result,
     tools_result |-> tools_result,
     output |-> IF apps_result.success \/ tools_result.success
                THEN PathTo(Dir(IF apps_result.success
                                THEN save_registry_json(apps_result.merged_entries)
                                ELSE AbsentFile,
                                IF tools_result.success
                                THEN save_registry_json(tools_result.merged_entries)
                                ELSE AbsentFile,
                                NoMarker))
                ELSE NonePath]

\* the end of merge_registries: the output directory is written when both merges succeed
MergedRegistries(apps_result, tools_result) ==
    [success |-> apps_result.success /\ tools_result.success,
     apps_result |-> apps_result,
     tools_result |-> tools_result,
     output |-> IF apps_result.success /\ tools_result.success
                THEN PathTo(Dir(save_registry_json(apps_result.merged_entries),
                                save_registry_json(tools_result.merged_entries),
                                NoMarker))
                ELSE NonePath]

merge_registries(local_dir, remote_dir, garden_version, force_entries) ==
    MergedRegistries(merge_entries(load_registry_json(local_dir.apps),
                                   load_registry_json(remote_dir.apps),
                                   garden_version, force_entries),
                     merge_entries(load_registry_json(local_dir.tools),
                                   load_registry_json(remote_dir.tools),
                                   garden_version, force_entries))

\* a line of the summary: the name, the action, the error of a FAIL, and the
\* versions shown (those of an INSERT, old and new of a REPLACE)
SummaryLine(a) ==
    <<a.name, a.action, a.error,
      IF a.action = "insert" THEN <<a.new_entry.version, a.new_entry.kamiwaza_version>>
      ELSE IF a.action = "replace"
      THEN <<IF a.replaced_entries # <<>> THEN a.replaced_entries[1].version ELSE <<>>,
             a.new_entry.version>>
      ELSE <<>> >>

\* the lines print_merge_summary prints for one catalog: the INSERTs, then the
\* REPLACEs, then the FAILs, each group in batch order
SummaryLines(result) ==
    LET Only(kind) == SelectSeq(result.actions, LAMBDA a : a.action = kind)
        all == Only("insert") \o Only("replace") \o Only("fail")
    IN  [i \in 1..Len(all) |-> SummaryLine(all[i])]

\* print_merge_summary: the lines of Apps, those of Tools, then the errors of both
ActionLog(merged) ==
    << SummaryLines(merged.apps_result), SummaryLines(merged.tools_result),
       merged.apps_result.errors \o merged.tools_result.errors >>

NoLog == << <<>>, <<>>, <<>> >>

\* variant of find_entries_to_remove: the loop stops at the first match
find_entries_to_remove_first_match(entries, name) ==
    LET hits == { i \in 1..Len(entries) : entries[i].name = name }
        first == IF hits = {} THEN Len(entries) + 1
                 ELSE CHOOSE i \in hits : \A j \in hits : i <= j
    IN  [matching |-> IF hits = {} THEN <<>> ELSE <<entries[first]>>,
         remaining |-> SubSeq(entries, 1, first - 1)]

\* find_entries_to_remove: the entries of that name, and the others in their order
find_entries_to_remove(entries, name) ==
    [matching |-> SelectSeq(entries, LAMBDA e : e.name = name),
     remaining |-> SelectSeq(entries, LAMBDA e : e.name # name)]

\* step 6 of a remove: both files are written, reduced where something matched
BuildModified(remote_dir, name) ==
    LET apps == find_entries_to_remove(load_registry_json(remote_dir.apps), name)
        tools == find_entries_to_remove(load_registry_json(remote_dir.tools), name)
    IN  Dir(save_registry_json(IF apps.matching # <<>> THEN apps.remaining
                               ELSE load_registry_json(remote_dir.apps)),
            save_registry_json(IF tools.matching # <<>> THEN tools.remaining
                               ELSE load_registry_json(remote_dir.tools)),
            NoMarker)

TotalMatching(remote_dir, name) ==
    Len(find_entries_to_remove(load_registry_json(remote_dir.apps), name).matching)
    + Len(find_entries_to_remove(load_registry_json(remote_dir.tools), name).matching)

-----------------------------------------------------------------------------
(* Remote store client: scripts/lib/s3_operations.py                        *)

\* get_lock_info after its check_lock_exists: `aws s3 cp` of the marker to stdout,
\* as the truth value of what is returned in acquire_lock's test: a marker that is
\* gone or a failed read give None, {} is falsy, anything else is truthy
get_lock_info(marker, readable) ==
    IF ~ marker.present THEN FALSE
    ELSE IF ~ readable THEN FALSE
    ELSE IF marker.kind = "empty_object" THEN FALSE
    ELSE TRUE

\* every per-object mix of two directory states
Mixes(old, new) ==
    { Dir(a, t, l) : a \in {old.apps, new.apps}, t \in {old.tools, new.tools},
                     l \in {old.lock, new.lock} }

\* a sync without --delete: the objects the directory lacks stay in the prefix
Overlay(prefix, dir) ==
    Dir(IF dir.apps.present THEN dir.apps ELSE prefix.apps,
        IF dir.tools.present THEN dir.tools ELSE prefix.tools,
        IF dir.lock.present THEN dir.lock ELSE prefix.lock)

\* variant of upload_registry: delete=False
upload_registry_no_delete(prefix, dir, outcome) ==
    IF outcome = "ok" THEN {Overlay(prefix, dir)} ELSE Mixes(prefix, dir)

\* aws s3 sync <dir> <prefix> --delete: the states the prefix may be left in.
\* "ok" mirrors the directory, objects absent from it deleted; "error" is a
\* non-zero exit part-way; "silent" is a zero exit although not every object
\* of the prefix holds what was sent
SyncOutcomes == {"ok", "silent", "error"}

upload_registry(prefix, dir, outcome) ==
    IF outcome = "ok" THEN {dir} ELSE Mixes(prefix, dir)

\* variant of verify_upload: only apps.json is compared
verify_upload_apps_only(local_dir, downloaded) ==
    \/ local_dir.apps.present /\ downloaded.apps.present
       /\ local_dir.apps.entries = downloaded.apps.entries
    \/ ~ local_dir.apps.present /\ ~ downloaded.apps.present

\* verify_upload's comparison of the local directory with the copy downloaded again
verify_upload(local_dir, downloaded) ==
    /\ \/ local_dir.apps.present /\ downloaded.apps.present
          /\ local_dir.apps.entries = downloaded.apps.entries
       \/ ~ local_dir.apps.present /\ ~ downloaded.apps.present
    /\ \/ local_dir.tools.present /\ downloaded.tools.present
          /\ local_dir.tools.entries = downloaded.tools.entries
       \/ ~ local_dir.tools.present /\ ~ downloaded.tools.present

-----------------------------------------------------------------------------
(* The runs: scripts/registry-upsert.py and scripts/registry-remove.py      *)

Publishers == {"p1", "p2"}

MaxRuns == 2      \* runs started in one behaviour

\* entries of the local registries and of the catalog found at the start
A1 == Entry("a", V_100, C_08_09)
A2 == Entry("a", V_110, C_08_10)
B1 == Entry("b", V_100, C_08_09)
D1 == Entry("d", V_110, C_09_10)
BadVersion == Entry("a", <<>>, C_08_09)
BadBoth == Entry("b", <<>>, NoConstraint)

LocalChoices ==
    { Dir(File(<<A1, B1>>), AbsentFile, NoMarker),
      Dir(File(<<A2>>), File(<<B1>>), NoMarker),
      Dir(File(<<BadVersion>>), AbsentFile, NoMarker),
      Dir(File(<<BadVersion, A1>>), File(<<B1, BadBoth>>), NoMarker) }

ForceNames == {"", "a"}
RemoveNames == {"a", "zz"}

\* a stale marker left by a killed run, and markers of other content
InitialMarkers ==
    { NoMarker, Marker("record", "other"), Marker("empty_object", "other"),
      Marker("raw", "other") }

\* nothing published yet, what one earlier publish of a1 left, or a catalog of
\* three extensions
InitialCatalogs ==
    { <<AbsentFile, AbsentFile>>, <<File(<<A1>>), File(<<>>)>>,
      <<File(<<B1, A1, D1>>), File(<<A1>>)>> }

Set(f, p, v) == [f EXCEPT ![p] = v]

Note(p, what) == Set(ops, p, Append(ops[p], what))

\* the store call tagged what is among those the run of p has made
Did(p, what) == \E i \in 1..Len(ops[p]) : ops[p][i] = what

Finished(p) == pc[p] \in {"idle", "done"}

\* the arguments of a run are fixed once it has started
Args == <<repo_version, runs, mode, dry_run, local, force_name, rm_name, start_remote,
          prev_dry>>

\* what a sync that stopped early has copied: each object of the prefix as it is in
\* the store, or not at all
Partials(store) ==
    { Dir(a, t, l) : a \in {store.apps, AbsentFile}, t \in {store.tools, AbsentFile},
                     l \in {store.lock, NoMarker} }

\* download_registry: `aws s3 sync` of the prefix into the working directory, which
\* keeps the files it held that the sync did not copy. With f the sync may exit
\* non-zero: with a blank stderr or one that names NoSuchKey the function returns
\* what the directory holds, with any other stderr it raises
download_registry(working, store, f) ==
    { [returned |-> TRUE, dir |-> Overlay(working, store), note |-> "download_ok"] }
    \cup (IF f
          THEN { [returned |-> r, dir |-> Overlay(working, d), note |-> "download_err"] :
                    r \in BOOLEAN, d \in Partials(store) }
          ELSE {})

\* check_lock_exists: `aws s3 ls` of the marker's key, true when the call exits 0
\* and lists the marker
check_lock_exists(store, ok) == ok /\ store.lock.present

\* release_lock after its check_lock_exists: `aws s3 rm` of the marker's key, which
\* exits 0 whether or not the key is still there; with f it may fail
release_lock(store, f) ==
    { <<[store EXCEPT !.lock = NoMarker], "release_ok">> }
    \cup (IF f THEN { <<store, "release_err">> } ELSE {})

\* the outcomes of a store call: with f, the calls may fail
Oks(f) == IF f THEN BOOLEAN ELSE {TRUE}
Syncs(f) == IF f THEN SyncOutcomes ELSE {"ok"}

force_entries(p) == IF force_name[p] # "" THEN {force_name[p]} ELSE {}

RunArgs(m, d, l, f, n) == [mode |-> m, dry_run |-> d, local |-> l, force_name |-> f, name |-> n]

\* the command lines of a run
AllArgs ==
    { RunArgs("upsert", d, l, f, "") : d \in BOOLEAN, l \in LocalChoices, f \in ForceNames }
    \cup { RunArgs("remove", d, EmptyDir, "", n) : d \in BOOLEAN, n \in RemoveNames }

\* the command lines of the runs that are let overlap
LiveArgs ==
    { RunArgs("upsert", FALSE, l, "", "") :
          l \in { Dir(File(<<A1>>), AbsentFile, NoMarker),
                  Dir(File(<<A2>>), File(<<B1>>), NoMarker) } }
    \cup { RunArgs("remove", FALSE, EmptyDir, "", "a") }

\* what the dry run of an upsert that has just exited showed, kept when the run
\* that starts next is a dry run of an upsert as well
DrySummary(p) ==
    [valid |-> TRUE, local |-> local[p], force_name |-> force_name[p],
     start_remote |-> start_remote[p], log |-> log[p]]

NoDrySummary ==
    [valid |-> FALSE, local |-> EmptyDir, force_name |-> "", start_remote |-> EmptyDir,
     log |-> NoLog]

IsDryUpsertDone(p) ==
    /\ pc[p] = "done" /\ mode[p] = "upsert" /\ dry_run[p]
    /\ validate_local_registry(local[p], repo_version) = <<>>

\* the value of a run variable as a run of p starts: with solo, the records of the
\* runs that have exited are dropped
Fresh(f, p, v, idle, solo) ==
    [q \in Publishers |-> IF q = p THEN v ELSE IF solo THEN idle ELSE f[q]]

\* main() up to the try block: the arguments are parsed, the working directory made
Start(p, args, solo) ==
    /\ Finished(p)
    /\ runs < MaxRuns
    /\ solo => \A q \in Publishers : Finished(q)
    /\ \E a \in args :
          /\ mode' = Fresh(mode, p, a.mode, "upsert", solo)
          /\ dry_run' = Fresh(dry_run, p, a.dry_run, FALSE, solo)
          /\ local' = Fresh(local, p, a.local, EmptyDir, solo)
          /\ force_name' = Fresh(force_name, p, a.force_name, "", solo)
          /\ rm_name' = Fresh(rm_name, p, a.name, "", solo)
          /\ pc' = Fresh(pc, p, IF a.mode = "upsert" THEN "validate"
                                ELSE IF a.dry_run THEN "dry_download" ELSE "acquire_check",
                         "idle", solo)
          /\ prev_dry' = IF IsDryUpsertDone(p) /\ a.mode = "upsert" /\ a.dry_run
                         THEN DrySummary(p) ELSE NoDrySummary
    /\ runs' = runs + 1
    /\ lock_acquired' = Fresh(lock_acquired, p, FALSE, FALSE, solo)
    /\ had_error' = Fresh(had_error, p, FALSE, FALSE, solo)
    /\ exit_code' = Fresh(exit_code, p, -1, -1, solo)
    /\ backup_path' = Fresh(backup_path, p, NonePath, NonePath, solo)
    /\ remote_path' = Fresh(remote_path, p, NonePath, NonePath, solo)
    /\ output_path' = Fresh(output_path, p, NonePath, NonePath, solo)
    /\ work_dir' = Fresh(work_dir, p, TRUE, FALSE, solo)
    /\ log' = Fresh(log, p, NoLog, NoLog, solo)
    /\ ops' = Fresh(ops, p, <<>>, <<>>, solo)
    /\ start_remote' = Fresh(start_remote, p, remote, EmptyDir, solo)
    /\ UNCHANGED <<remote, repo_version, working_path, mvars>>

\* upsert step 1: an invalid local registry exits 1 before anything else
Validate(p) ==
    /\ pc[p] = "validate"
    /\ IF validate_local_registry(local[p], repo_version) # <<>>
       THEN /\ exit_code' = Set(exit_code, p, 1)
            /\ pc' = Set(pc, p, "finally")
       ELSE /\ pc' = Set(pc, p, IF dry_run[p] THEN "dry_download" ELSE "acquire_check")
            /\ UNCHANGED exit_code
    /\ UNCHANGED <<remote, lock_acquired, had_error, backup_path, remote_path, output_path,
                   work_dir, log, ops, Args, working_path, mvars>>

\* dry run: download_registry(create_backup=False) into the new work_dir; when
\* it raises, an upsert merges against an empty directory and a remove exits 1
DryDownload(p, f) ==
    /\ pc[p] = "dry_download"
    /\ \E got \in download_registry(EmptyDir, remote, f) :
          IF got.returned
          THEN /\ remote_path' = Set(remote_path, p, PathTo(got.dir))
               /\ pc' = Set(pc, p, IF mode[p] = "upsert" THEN "dry_merge" ELSE "dry_find")
               /\ ops' = Note(p, got.note)
               /\ UNCHANGED exit_code
          ELSE IF mode[p] = "upsert"
          THEN /\ remote_path' = Set(remote_path, p, PathTo(EmptyDir))
               /\ pc' = Set(pc, p, "dry_merge")
               /\ ops' = Note(p, got.note)
               /\ UNCHANGED exit_code
          ELSE /\ exit_code' = Set(exit_code, p, 1)
               /\ pc' = Set(pc, p, "finally")
               /\ ops' = Note(p, got.note)
               /\ UNCHANGED remote_path
    /\ UNCHANGED <<remote, lock_acquired, had_error, backup_path, output_path, work_dir, log,
                   Args, working_path, mvars>>

\* variant of DryMerge: sys.exit(0) whatever the simulated merge says
DryMergeExitsClean(p) ==
    /\ pc[p] = "dry_merge"
    /\ \E merged \in { merge_registries(local[p], remote_path[p].dir, repo_version,
                                        force_entries(p)) } :
          /\ log' = Set(log, p, ActionLog(merged))
          /\ output_path' = Set(output_path, p, merged.output)
    /\ exit_code' = Set(exit_code, p, 0)
    /\ pc' = Set(pc, p, "finally")
    /\ UNCHANGED <<remote, lock_acquired, had_error, backup_path, remote_path, work_dir, ops,
                   Args, working_path, mvars>>

\* dry run of an upsert: the merge is simulated, the summary shown, exit 1 on a FAIL
DryMerge(p) ==
    /\ pc[p] = "dry_merge"
    /\ \E merged \in { merge_registries(local[p], remote_path[p].dir, repo_version,
                                        force_entries(p)) } :
          /\ log' = Set(log, p, ActionLog(merged))
          /\ output_path' = Set(output_path, p, merged.output)
          /\ exit_code' = Set(exit_code, p, IF merged.success THEN 0 ELSE 1)
    /\ pc' = Set(pc, p, "finally")
    /\ UNCHANGED <<remote, lock_acquired, had_error, backup_path, remote_path, work_dir, ops,
                   Args, working_path, mvars>>

\* dry run of a remove: exit 1 when nothing matches, else the preview and exit 0
DryFind(p) ==
    /\ pc[p] = "dry_find"
    /\ exit_code' = Set(exit_code, p,
                        IF TotalMatching(remote_path[p].dir, rm_name[p]) = 0 THEN 1 ELSE 0)
    /\ pc' = Set(pc, p, "finally")
    /\ UNCHANGED <<remote, lock_acquired, had_error, backup_path, remote_path, output_path,
                   work_dir, log, ops, Args, working_path, mvars>>

\* acquire_lock, get_lock_info's check_lock_exists: with no marker listed, None is
\* returned and the run goes on to its put-object
AcquireCheck(p, f) ==
    /\ pc[p] = "acquire_check"
    /\ \E ok \in Oks(f) :
          /\ pc' = Set(pc, p, IF check_lock_exists(remote, ok) THEN "acquire_read"
                                                               ELSE "acquire_put")
          /\ ops' = Note(p, IF check_lock_exists(remote, ok) THEN "check_present"
                                                             ELSE "check_absent")
    /\ UNCHANGED <<remote, lock_acquired, had_error, exit_code, backup_path, remote_path,
                   output_path, work_dir, log, Args, working_path, mvars>>

\* acquire_lock, the rest of get_lock_info and the test of what it returned: the
\* marker that was listed is read as the store holds it by now
AcquireRead(p, f) ==
    /\ pc[p] = "acquire_read"
    /\ \E readable \in Oks(f) :
          /\ ~ remote.lock.present => readable
          /\ IF get_lock_info(remote.lock, readable)
             THEN /\ exit_code' = Set(exit_code, p, 1)
                  /\ pc' = Set(pc, p, "finally")
             ELSE /\ pc' = Set(pc, p, "acquire_put")
                  /\ UNCHANGED exit_code
    /\ UNCHANGED <<remote, lock_acquired, had_error, backup_path, remote_path, output_path,
                   work_dir, log, ops, Args, working_path, mvars>>

\* variant of AcquirePut: a conditional write, refused when a marker is there
AcquirePutIfAbsent(p, f) ==
    /\ pc[p] = "acquire_put"
    /\ IF ~ remote.lock.present
       THEN /\ remote' = [remote EXCEPT !.lock = Marker("record", p)]
            /\ lock_acquired' = Set(lock_acquired, p, TRUE)
            /\ pc' = Set(pc, p, "download")
            /\ ops' = Note(p, "lock_put")
            /\ UNCHANGED exit_code
       ELSE /\ exit_code' = Set(exit_code, p, 1)
            /\ pc' = Set(pc, p, "finally")
            /\ ops' = Note(p, "lock_put_err")
            /\ UNCHANGED <<remote, lock_acquired>>
    /\ UNCHANGED <<had_error, backup_path, remote_path, output_path, work_dir, log, Args,
                   working_path, mvars>>

\* acquire_lock, its end: put-object of the marker, whatever is there by now
AcquirePut(p, f) ==
    /\ pc[p] = "acquire_put"
    /\ \E ok \in Oks(f) :
          IF ok
          THEN /\ remote' = [remote EXCEPT !.lock = Marker("record", p)]
               /\ lock_acquired' = Set(lock_acquired, p, TRUE)
               /\ pc' = Set(pc, p, "download")
               /\ ops' = Note(p, IF remote.lock.present THEN "lock_put_over" ELSE "lock_put")
               /\ UNCHANGED exit_code
          ELSE /\ exit_code' = Set(exit_code, p, 1)
               /\ pc' = Set(pc, p, "finally")
               /\ ops' = Note(p, "lock_put_err")
               /\ UNCHANGED <<remote, lock_acquired>>
    /\ UNCHANGED <<had_error, backup_path, remote_path, output_path, work_dir, log, Args,
                   working_path, mvars>>

\* live run: download_registry(create_backup=True) into build/registry-backups, which
\* no run empties: the backup is a copy of what the working directory holds; when the
\* download raises, the run is in its except block with no backup
Download(p, f) ==
    /\ pc[p] = "download"
    /\ \E got \in download_registry(working_path[p], remote, f) :
          /\ working_path' = Set(working_path, p, got.dir)
          /\ ops' = Note(p, got.note)
          /\ IF got.returned
             THEN /\ remote_path' = Set(remote_path, p, PathTo(got.dir))
                  /\ backup_path' = Set(backup_path, p, PathTo(got.dir))
                  /\ pc' = Set(pc, p, IF mode[p] = "upsert" THEN "merge" ELSE "find")
                  /\ UNCHANGED had_error
             ELSE /\ had_error' = Set(had_error, p, TRUE)
                  /\ pc' = Set(pc, p, "finally")
                  /\ UNCHANGED <<remote_path, backup_path>>
    /\ UNCHANGED <<remote, lock_acquired, exit_code, output_path, work_dir, log, Args, mvars>>

\* upsert step 4: merge_registries; a failed merge raises into the failure path
Merge(p) ==
    /\ pc[p] = "merge"
    /\ \E merged \in { merge_registries(local[p], remote_path[p].dir, repo_version,
                                        force_entries(p)) } :
          /\ log' = Set(log, p, ActionLog(merged))
          /\ output_path' = Set(output_path, p, merged.output)
          /\ had_error' = Set(had_error, p, ~ merged.success)
          /\ pc' = Set(pc, p, IF merged.success THEN "upload" ELSE "restore")
    /\ UNCHANGED <<remote, lock_acquired, exit_code, backup_path, remote_path, work_dir, ops,
                   Args, working_path, mvars>>

\* variant of Find: the run goes on to the confirmation when nothing matches
FindGoesOn(p) ==
    /\ pc[p] = "find"
    /\ pc' = Set(pc, p, "confirm")
    /\ UNCHANGED <<remote, lock_acquired, had_error, exit_code, backup_path, remote_path,
                   output_path, work_dir, log, ops, Args, working_path, mvars>>

\* remove step 3: no entry of that name exits 1
Find(p) ==
    /\ pc[p] = "find"
    /\ IF TotalMatching(remote_path[p].dir, rm_name[p]) = 0
       THEN /\ exit_code' = Set(exit_code, p, 1)
            /\ pc' = Set(pc, p, "finally")
       ELSE /\ pc' = Set(pc, p, "confirm")
            /\ UNCHANGED exit_code
    /\ UNCHANGED <<remote, lock_acquired, had_error, backup_path, remote_path, output_path,
                   work_dir, log, ops, Args, working_path, mvars>>

\* remove steps 5 and 6: the operator's answer, then the modified registry
Confirm(p) ==
    /\ pc[p] = "confirm"
    /\ \E yes \in BOOLEAN :
          IF yes
          THEN /\ output_path' = Set(output_path, p,
                                     PathTo(BuildModified(remote_path[p].dir, rm_name[p])))
               /\ pc' = Set(pc, p, "upload")
               /\ UNCHANGED exit_code
          ELSE /\ exit_code' = Set(exit_code, p, 0)
               /\ pc' = Set(pc, p, "finally")
               /\ UNCHANGED output_path
    /\ UNCHANGED <<remote, lock_acquired, had_error, backup_path, remote_path, work_dir, log,
                   ops, Args, working_path, mvars>>

\* variant of Upload: a failed sync goes to the cleanup without the restore
UploadNoRollback(p, f) ==
    /\ pc[p] = "upload"
    /\ \E outcome \in Syncs(f) :
       \E r \in upload_registry(remote, output_path[p].dir, outcome) :
          /\ outcome = "silent" => r # output_path[p].dir
          /\ remote' = r
          /\ ops' = Note(p, IF outcome = "ok" THEN "upload_ok"
                            ELSE IF outcome = "silent" THEN "upload_silent" ELSE "upload_err")
          /\ had_error' = Set(had_error, p, outcome = "error")
          /\ pc' = Set(pc, p, IF outcome = "error" THEN "finally" ELSE "verify")
    /\ UNCHANGED <<lock_acquired, exit_code, backup_path, remote_path, output_path, work_dir,
                   log, Args, working_path, mvars>>

\* upload_registry(output_path, delete=True)
Upload(p, f) ==
    /\ pc[p] = "upload"
    /\ \E outcome \in Syncs(f) :
       \E r \in upload_registry(remote, output_path[p].dir, outcome) :
          /\ outcome = "silent" => r # output_path[p].dir
          /\ remote' = r
          /\ ops' = Note(p, IF outcome = "ok" THEN "upload_ok"
                            ELSE IF outcome = "silent" THEN "upload_silent" ELSE "upload_err")
          /\ had_error' = Set(had_error, p, outcome = "error")
          /\ pc' = Set(pc, p, IF outcome = "error" THEN "restore" ELSE "verify")
    /\ UNCHANGED <<lock_acquired, exit_code, backup_path, remote_path, output_path, work_dir,
                   log, Args, working_path, mvars>>

\* verify_upload: the prefix is downloaded again and compared with what was sent
Verify(p, f) ==
    /\ pc[p] = "verify"
    /\ \E ok \in Oks(f) :
          IF ~ ok
          THEN /\ ops' = Note(p, "verify_err")
               /\ had_error' = Set(had_error, p, TRUE)
               /\ pc' = Set(pc, p, "restore")
          ELSE IF verify_upload(output_path[p].dir, remote)
          THEN /\ ops' = Note(p, "verify_ok")
               /\ pc' = Set(pc, p, "release")
               /\ UNCHANGED had_error
          ELSE /\ ops' = Note(p, "verify_mismatch")
               /\ had_error' = Set(had_error, p, TRUE)
               /\ pc' = Set(pc, p, "restore")
    /\ UNCHANGED <<remote, lock_acquired, exit_code, backup_path, remote_path, output_path,
                   work_dir, log, Args, working_path, mvars>>

\* the success path, release_lock's check_lock_exists: with no marker listed the
\* function returns, and lock_acquired = False
Release(p, f) ==
    /\ pc[p] = "release"
    /\ \E ok \in Oks(f) :
          IF check_lock_exists(remote, ok)
          THEN /\ pc' = Set(pc, p, "release_rm")
               /\ UNCHANGED <<ops, lock_acquired>>
          ELSE /\ ops' = Note(p, "release_none")
               /\ lock_acquired' = Set(lock_acquired, p, FALSE)
               /\ pc' = Set(pc, p, "finally")
    /\ UNCHANGED <<remote, had_error, exit_code, backup_path, remote_path, output_path,
                   work_dir, log, Args, working_path, mvars>>

\* the success path, the rest of release_lock: the marker's key is removed, whatever
\* it holds by now, then lock_acquired = False
ReleaseRm(p, f) ==
    /\ pc[p] = "release_rm"
    /\ \E res \in release_lock(remote, f) :
          /\ remote' = res[1]
          /\ ops' = Note(p, res[2])
    /\ lock_acquired' = Set(lock_acquired, p, FALSE)
    /\ pc' = Set(pc, p, "finally")
    /\ UNCHANGED <<had_error, exit_code, backup_path, remote_path, output_path, work_dir, log,
                   Args, working_path, mvars>>

\* the except block: restore_backup when there is a backup; its failure is only warned of
Restore(p, f) ==
    /\ pc[p] = "restore"
    /\ IF backup_path[p].set
       THEN \E outcome \in Syncs(f) :
            \E r \in upload_registry(remote, backup_path[p].dir, outcome) :
               /\ outcome = "silent" => r # backup_path[p].dir
               /\ remote' = r
               /\ ops' = Note(p, IF outcome = "ok" THEN "restore_ok"
                                 ELSE IF outcome = "silent" THEN "restore_silent"
                                 ELSE "restore_err")
       ELSE UNCHANGED <<remote, ops>>
    /\ pc' = Set(pc, p, "finally")
    /\ UNCHANGED <<lock_acquired, had_error, exit_code, backup_path, remote_path, output_path,
                   work_dir, log, Args, working_path, mvars>>

\* the end of the finally block: rmtree(work_dir), and the exit status
Exit(p) ==
    /\ work_dir' = Set(work_dir, p, FALSE)
    /\ exit_code' = Set(exit_code, p, IF had_error[p] THEN 1
                                      ELSE IF exit_code[p] = -1 THEN 0 ELSE exit_code[p])
    /\ pc' = Set(pc, p, "done")

\* variant of Finally: no release_lock in the cleanup
FinallyKeepsLock(p, f) ==
    /\ pc[p] = "finally"
    /\ Exit(p)
    /\ UNCHANGED <<remote, ops, lock_acquired, had_error, backup_path, remote_path,
                   output_path, log, Args, working_path, mvars>>

\* the finally block: if lock_acquired, release_lock's check_lock_exists; with no
\* release to make, or no marker listed, the block runs to its end
Finally(p, f) ==
    /\ pc[p] = "finally"
    /\ \E ok \in (IF lock_acquired[p] THEN Oks(f) ELSE {TRUE}) :
          IF lock_acquired[p] /\ check_lock_exists(remote, ok)
          THEN /\ pc' = Set(pc, p, "finally_rm")
               /\ UNCHANGED <<ops, work_dir, exit_code>>
          ELSE /\ ops' = IF lock_acquired[p] THEN Note(p, "release_none") ELSE ops
               /\ Exit(p)
    /\ UNCHANGED <<remote, lock_acquired, had_error, backup_path, remote_path, output_path,
                   log, Args, working_path, mvars>>

\* the finally block, the rest of release_lock: the marker's key is removed, whatever
\* it holds by now; then the end of the block
FinallyRm(p, f) ==
    /\ pc[p] = "finally_rm"
    /\ \E res \in release_lock(remote, f) :
          /\ remote' = res[1]
          /\ ops' = Note(p, res[2])
    /\ Exit(p)
    /\ UNCHANGED <<lock_acquired, had_error, backup_path, remote_path, output_path, log, Args,
                   working_path, mvars>>

DecideIdle == du_args = <<>> /\ du_result = <<>> /\ du_called = TRUE

CompareIdle == cc_c1 = <<>> /\ cc_c2 = <<>> /\ cc_result = "" /\ DecideIdle

MergeIdle ==
    /\ m_local = <<>> /\ m_remote = <<>> /\ m_version = "v1" /\ m_force = {}
    /\ m_result = MergeResult(FALSE, <<>>, <<>>, <<>>) /\ m_called = TRUE
    /\ CompareIdle

Init ==
    /\ \E c \in InitialCatalogs, m \in InitialMarkers : remote = Dir(c[1], c[2], m)
    /\ repo_version \in {"v1", "v2"}
    /\ runs = 0
    /\ pc = [p \in Publishers |-> "idle"]
    /\ mode = [p \in Publishers |-> "upsert"]
    /\ dry_run = [p \in Publishers |-> FALSE]
    /\ local = [p \in Publishers |-> EmptyDir]
    /\ force_name = [p \in Publishers |-> ""]
    /\ rm_name = [p \in Publishers |-> ""]
    /\ lock_acquired = [p \in Publishers |-> FALSE]
    /\ had_error = [p \in Publishers |-> FALSE]
    /\ exit_code = [p \in Publishers |-> -1]
    /\ backup_path = [p \in Publishers |-> NonePath]
    /\ remote_path = [p \in Publishers |-> NonePath]
    /\ output_path = [p \in Publishers |-> NonePath]
    /\ work_dir = [p \in Publishers |-> FALSE]
    /\ working_path = [p \in Publishers |-> EmptyDir]
    /\ log = [p \in Publishers |-> NoLog]
    /\ ops = [p \in Publishers |-> <<>>]
    /\ start_remote = [p \in Publishers |-> EmptyDir]
    /\ prev_dry = NoDrySummary
    /\ MergeIdle

\* the steps of a --dry-run
DryRun(p, f) == DryDownload(p, f) \/ DryMerge(p) \/ DryFind(p)

\* the steps of a live run after acquire_lock
Body(p, f) ==
    \/ Validate(p) \/ Download(p, f) \/ Merge(p) \/ Find(p) \/ Confirm(p)
    \/ Upload(p, f) \/ Verify(p, f) \/ Release(p, f) \/ ReleaseRm(p, f) \/ Restore(p, f)
    \/ Finally(p, f) \/ FinallyRm(p, f)

Step(p, f) == AcquireCheck(p, f) \/ AcquireRead(p, f) \/ AcquirePut(p, f) \/ Body(p, f)

\* one run at a time, all from one machine; with the faults of the store: a listing,
\* a read, a write, a sync or a delete of its objects may fail
Next == Start("p1", AllArgs, TRUE) \/ DryRun("p1", TRUE) \/ Step("p1", TRUE)

Spec == Init /\ [][Next]_vars

\* live runs on separate machines against a catalog nobody has published to yet:
\* the runs start and step in any interleaving, and the store calls succeed
InitConc ==
    /\ Init
    /\ Catalog(remote) = <<AbsentFile, AbsentFile>>
    /\ remote.lock \in {NoMarker, Marker("record", "other")}
    /\ repo_version = "v2"

NextConc == \E p \in Publishers : Start(p, LiveArgs, FALSE) \/ Step(p, FALSE)

SpecConc == InitConc /\ [][NextConc]_vars

-----------------------------------------------------------------------------
(* merge_entries called on its own, on every bounded input                  *)

MaxBatch == 2     \* longest local batch
MaxRemote == 2    \* longest remote snapshot

BoundedSeq(S, n) == UNION { [1..k -> S] : k \in 0..n }


\* v1 entries carry no constraint; "1.0" and "1.0.0" are one version under two spellings
V1Entries ==
    { Entry(n, v, NoConstraint) : n \in {"a", "b"}, v \in {V_100, V_110} }
    \cup { Entry("a", V_10, NoConstraint) }

\* v2 entries whose constraints stand in every relation to one another: same, disjoint,
\* superset and subset, partial overlap; one entry without a constraint, one other name
V2Entries ==
    { Entry("a", V_100, C_08_09), Entry("a", V_110, C_08_09), Entry("a", V_100, C_09_10),
      Entry("a", V_110, C_08_10), Entry("a", V_110, C_08_095),
      Entry("a", V_100, NoConstraint), Entry("b", V_100, C_08_09) }

EntriesOf(version) == IF version = "v1" THEN V1Entries ELSE V2Entries

ForceSets == { {}, {"a"} }

NoResult == MergeResult(FALSE, <<>>, <<>>, <<>>)

WorkflowIdle ==
    /\ remote = EmptyDir
    /\ repo_version = "v1"
    /\ runs = 0
    /\ pc = <<>> /\ mode = <<>> /\ dry_run = <<>> /\ local = <<>> /\ force_name = <<>>
    /\ rm_name = <<>> /\ lock_acquired = <<>> /\ had_error = <<>> /\ exit_code = <<>>
    /\ backup_path = <<>> /\ remote_path = <<>> /\ output_path = <<>> /\ work_dir = <<>>
    /\ working_path = <<>>
    /\ log = <<>> /\ ops = <<>> /\ start_remote = <<>> /\ prev_dry = <<>>

MergeInit ==
    /\ m_version \in {"v1", "v2"}
    /\ m_local \in BoundedSeq(EntriesOf(m_version), MaxBatch)
    /\ m_remote \in BoundedSeq(EntriesOf(m_version), MaxRemote)
    /\ m_force \in ForceSets
    /\ m_result = NoResult
    /\ m_called = FALSE
    /\ CompareIdle
    /\ WorkflowIdle

CallMergeEntries ==
    /\ ~ m_called
    /\ m_result' = merge_entries(m_local, m_remote, m_version, m_force)
    /\ m_called' = TRUE
    /\ UNCHANGED <<m_local, m_remote, m_version, m_force, cvars, wvars>>

MergeNext == CallMergeEntries

SpecMerge == MergeInit /\ [][MergeNext]_vars

-----------------------------------------------------------------------------
(* compare_constraints called on its own, on every pair of constraints      *)

CompareInit ==
    /\ cc_c1 \in AllConstraints
    /\ cc_c2 \in AllConstraints
    /\ cc_result = ""
    /\ DecideIdle
    /\ m_local = <<>> /\ m_remote = <<>> /\ m_version = "v1" /\ m_force = {}
    /\ m_result = NoResult /\ m_called = TRUE
    /\ WorkflowIdle

CallCompareConstraints ==
    /\ cc_result = ""
    /\ cc_result' = compare_constraints(cc_c1, cc_c2)
    /\ UNCHANGED <<cc_c1, cc_c2, du_args, du_result, du_called, m_local, m_remote, m_version, m_force, m_result, m_called, wvars>>

CompareNext == CallCompareConstraints

SpecCompare == CompareInit /\ [][CompareNext]_vars

-----------------------------------------------------------------------------
(* _determine_upsert_action called on its own: one candidate against every   *)
(* bounded list of existing entries of its name                             *)

MaxExisting == 2  \* longest list of existing entries

Spellings == {V_100, V_110, V_10}

\* the entries of one name under a rule set
NamedV1(n) == { Entry(n, v, NoConstraint) : v \in Spellings }

NamedV2(n) ==
    { Entry(n, v, kv) : v \in {V_100, V_110}, kv \in ConstraintUniverse \cup {NoConstraint} }

Named(version, n) == IF version = "v1" THEN NamedV1(n) ELSE NamedV2(n)

DecideArgs(local_entry, existing, garden_version, force) ==
    [local_entry |-> local_entry, existing |-> existing, garden_version |-> garden_version,
     force_entries |-> force]

DecideInit ==
    /\ \E version \in {"v1", "v2"}, n \in {"a", "b"}, force \in ForceSets :
       \E local_entry \in Named(version, n) :
       \E existing \in BoundedSeq(Named(version, n), MaxExisting) :
          du_args = DecideArgs(local_entry, existing, version, force)
    /\ du_result = <<>>
    /\ du_called = FALSE
    /\ cc_c1 = <<>> /\ cc_c2 = <<>> /\ cc_result = ""
    /\ m_local = <<>> /\ m_remote = <<>> /\ m_version = "v1" /\ m_force = {}
    /\ m_result = NoResult /\ m_called = TRUE
    /\ WorkflowIdle

CallDetermineUpsertAction ==
    /\ ~ du_called
    /\ du_result' = determine_upsert_action(du_args.local_entry, du_args.existing,
                                            du_args.garden_version, du_args.force_entries)
    /\ du_called' = TRUE
    /\ UNCHANGED <<du_args, cc_c1, cc_c2, cc_result, m_local, m_remote, m_version, m_force,
                   m_result, m_called, wvars>>

DecideNext == CallDetermineUpsertAction

SpecDecide == DecideInit /\ [][DecideNext]_vars

\* the call was decided by the rule set of that format, not by the force set
Decided(version) ==
    /\ du_called
    /\ du_args.garden_version = version
    /\ du_args.local_entry.name \notin du_args.force_entries

-----------------------------------------------------------------------------
(* C1                                                                       *)

\* the reason of every FAIL decision of the batch, in batch order
RECURSIVE FailReasons(_, _, _, _)
FailReasons(batch, remote_entries, version, force) ==
    IF batch = <<>> THEN <<>>
    ELSE LET d == determine_upsert_action(Head(batch),
                                          SelectByName(remote_entries, Head(batch).name),
                                          version, force)
         IN  (IF d.action = "fail" THEN <<d.error>> ELSE <<>>)
             \o FailReasons(Tail(batch), remote_entries, version, force)

\* C1: all-or-nothing merge.  When at least one candidate's decision is FAIL,
\* merge_entries returns success = FALSE and an empty merged list, every
\* candidate of the batch has been evaluated, and errors holds exactly one
\* reason per FAIL candidate, in batch order (merge_entries builds new lists
\* and leaves the remote_entries it was given alone).
AllOrNothingMerge ==
    (m_called /\ FailReasons(m_local, m_remote, m_version, m_force) # <<>>) =>
        /\ m_result.success = FALSE
        /\ m_result.merged_entries = <<>>
        /\ Len(m_result.actions) = Len(m_local)
        /\ \A i \in 1..Len(m_local) : m_result.actions[i].new_entry = m_local[i]
        /\ m_result.errors = FailReasons(m_local, m_remote, m_version, m_force)

\* a failed merge whose first candidate is the FAIL and whose second would have
\* been accepted against a non-empty remote snapshot
AllOrNothingMergeWitness ==
    /\ m_called
    /\ Len(m_local) = 2
    /\ m_remote # <<>>
    /\ m_result.success = FALSE
    /\ m_result.actions[1].action = "fail"
    /\ m_result.actions[2].action \in {"insert", "replace"}
    /\ Len(m_result.errors) = 1

-----------------------------------------------------------------------------
(* Runs of the workflow: what the claims speak of                           *)

LiveUpsert(p) == mode[p] = "upsert" /\ ~ dry_run[p] /\ pc[p] # "idle"

Exited(p) == pc[p] = "done"

LockPut(p) == Did(p, "lock_put") \/ Did(p, "lock_put_over")

Released(p) == Did(p, "release_ok") \/ Did(p, "release_none") \/ Did(p, "release_err")

Uploaded(p) == Did(p, "upload_ok") \/ Did(p, "upload_silent") \/ Did(p, "upload_err")

Restored(p) == Did(p, "restore_ok") \/ Did(p, "restore_silent") \/ Did(p, "restore_err")

\* step 3 of the live run of p is behind it: download_registry(create_backup=True)
\* has returned its working directory, after a whole sync or after one that stopped
\* early and was taken for an empty remote.  A dry run has no such step: its
\* remote_path is also bound when its download raised
LiveDownloaded(p) == ~ dry_run[p] /\ remote_path[p].set

HasFail(l) == \E k \in 1..2 : \E i \in 1..Len(l[k]) : l[k][i][2] = "fail"

\* the merge of the run of p has been made and has failed
MergeFailed(p) == LiveUpsert(p) /\ LiveDownloaded(p) /\ HasFail(log[p])

-----------------------------------------------------------------------------
(* C2                                                                       *)

\* C2: rollback property.  A live upsert whose upload_registry returned and whose
\* verify_upload then reported a mismatch has, once it has exited, left apps.json
\* and tools.json of the remote equal to the backup taken in that run, and no lock
\* marker in the store, when the restore sync and the marker's delete succeeded.
RollbackAfterMismatch ==
    \A p \in Publishers :
        (/\ LiveUpsert(p) /\ Exited(p)
         /\ Did(p, "upload_ok") \/ Did(p, "upload_silent")
         /\ Did(p, "verify_mismatch")
         /\ Did(p, "restore_ok") /\ Did(p, "release_ok"))
        => /\ backup_path[p].set
           /\ Catalog(remote) = Catalog(backup_path[p].dir)
           /\ ~ remote.lock.present

\* such a run, whose merged catalog differed from the backup it went back to
RollbackAfterMismatchWitness ==
    \E p \in Publishers :
        /\ LiveUpsert(p) /\ Exited(p)
        /\ Did(p, "upload_silent") /\ Did(p, "verify_mismatch")
        /\ Did(p, "restore_ok") /\ Did(p, "release_ok")
        /\ Catalog(output_path[p].dir) # Catalog(backup_path[p].dir)
        /\ Catalog(backup_path[p].dir) = <<AbsentFile, AbsentFile>>
        /\ Catalog(remote) = Catalog(backup_path[p].dir)
        /\ exit_code[p] = 1

-----------------------------------------------------------------------------
(* C3                                                                       *)

\* C3: two-state guarantee.  A live upsert that exits non-zero, at whichever step
\* it failed, and whose restore_backup (when it ran) mirrored the backup, leaves
\* the remote catalog either as it was when the run started or equal to the
\* backup re-applied: never a mix of old and new objects.
TwoStateGuarantee ==
    \A p \in Publishers :
        (/\ LiveUpsert(p) /\ Exited(p) /\ exit_code[p] # 0
         /\ ~ Did(p, "restore_silent") /\ ~ Did(p, "restore_err"))
        => \/ ~ Uploaded(p) /\ Catalog(remote) = Catalog(start_remote[p])
           \/ /\ Did(p, "restore_ok") /\ backup_path[p].set
              /\ Catalog(remote) = Catalog(backup_path[p].dir)

\* an upload that failed part-way, leaving one new and one old object, undone
TwoStateGuaranteeWitness ==
    \E p \in Publishers :
        /\ LiveUpsert(p) /\ Exited(p) /\ exit_code[p] = 1
        /\ Did(p, "upload_err") /\ Did(p, "restore_ok")
        /\ output_path[p].dir.apps # backup_path[p].dir.apps
        /\ output_path[p].dir.tools # backup_path[p].dir.tools
        /\ Catalog(remote) = Catalog(backup_path[p].dir)

-----------------------------------------------------------------------------
(* C4                                                                       *)

\* C4: merge failure performs no remote mutation.  A live upsert whose merge
\* fails runs no sync to the remote prefix, neither an upload of a merged catalog
\* nor a re-upload of the backup: the catalog stays as the run found it, and the
\* run exits non-zero.
MergeFailureNoSync ==
    \A p \in Publishers :
        MergeFailed(p) => /\ ~ Uploaded(p)
                          /\ ~ Restored(p)
                          /\ Catalog(remote) = Catalog(start_remote[p])
                          /\ Exited(p) => exit_code[p] = 1

-----------------------------------------------------------------------------
(* C5                                                                       *)

\* C5: the lock is always released.  Every live run, upsert or remove, that wrote
\* the marker has called release_lock by the time it exits, on every path, and
\* every run that exits has removed its working directory.
LockAlwaysReleased ==
    \A p \in Publishers :
        Exited(p) => /\ LockPut(p) => Released(p)
                     /\ ~ work_dir[p]

\* the hardest path: the upload failed and the restore failed as well
LockAlwaysReleasedWitness ==
    \E p \in Publishers :
        /\ Exited(p) /\ LockPut(p)
        /\ Did(p, "upload_err") /\ Did(p, "restore_err")
        /\ ops[p][Len(ops[p])] = "release_ok"
        /\ ~ work_dir[p]

-----------------------------------------------------------------------------
(* C6                                                                       *)

\* the run of p is between its acquire_lock and its own release_lock
Holding(p) == lock_acquired[p] /\ pc[p] \notin {"idle", "done"}

\* C6: single active writer.  With no step of another publisher inside an
\* acquire_lock, two runs are between their acquire_lock and their own
\* release_lock at once exactly when the check of one lets it through to its write
\* while the other is there: no check made while another run holds the lock finds
\* the way free.
SingleActiveWriter ==
    [][\A p, q \in Publishers :
          (p # q /\ Holding(q) /\ pc[p] \in {"acquire_check", "acquire_read"})
          => pc'[p] # "acquire_put"]_vars

-----------------------------------------------------------------------------
(* C7                                                                       *)

\* C7: lock held means immediate rejection.  A live run whose check was made
\* while a marker object existed, whatever the marker holds, has its
\* acquire_lock fail once the check is over: it makes no further store call,
\* leaves the marker as it is, and exits 1.
LockHeldMeansRejection ==
    \A p \in Publishers :
        (Did(p, "check_present") /\ pc[p] # "acquire_read")
        => /\ ops[p] = <<"check_present">>
           /\ pc[p] \in {"finally", "done"}
           /\ exit_code[p] = 1
           /\ remote = start_remote[p]
           /\ ~ lock_acquired[p]

-----------------------------------------------------------------------------
(* C8                                                                       *)

\* C8: the acquisition race.  acquire_lock's write is unconditional: a publisher
\* whose check found no marker gets lock_acquired at its write whatever the
\* store holds by then, so that two publishers whose checks both precede both
\* writes hold the lock together and both upload, and no later step objects.
AcquisitionRace ==
    [][\A p \in Publishers :
          (pc[p] = "acquire_put" /\ pc'[p] # "acquire_put")
          => /\ lock_acquired'[p]
             /\ pc'[p] = "download"
             /\ remote'.lock = Marker("record", p)]_vars

\* both publishers passed the check before either wrote, both held the lock at
\* once, both uploaded, and both have exited 0
AcquisitionRaceWitness ==
    /\ \A p \in Publishers :
          /\ Exited(p) /\ exit_code[p] = 0
          /\ ops[p][1] = "check_absent"
          /\ Did(p, "upload_ok") /\ Did(p, "verify_ok")
    /\ \E p \in Publishers : Did(p, "lock_put_over")

-----------------------------------------------------------------------------
(* C9                                                                       *)

\* a dry run so far has made no call that writes to the store
DryRunReadOnly ==
    \A p \in Publishers :
        (dry_run[p] /\ pc[p] # "idle")
        => /\ remote = start_remote[p]
           /\ ~ lock_acquired[p]
           /\ \A i \in 1..Len(ops[p]) : ops[p][i] \in {"download_ok", "download_err"}

\* the dry run of an upsert that has just exited repeats the one before it
RepeatsDryRun(p) ==
    /\ IsDryUpsertDone(p)
    /\ prev_dry.valid
    /\ prev_dry.local = local[p]
    /\ prev_dry.force_name = force_name[p]
    /\ prev_dry.start_remote = start_remote[p]

\* C9: dry-run is read-only and repeatable.  A dry run writes nothing to the
\* store and never touches the marker, and two consecutive dry runs of an upsert
\* on unchanged local and remote state show the same ordered action log.
DryRunReadOnlyRepeatable ==
    /\ DryRunReadOnly
    /\ \A p \in Publishers : RepeatsDryRun(p) => log[p] = prev_dry.log

-----------------------------------------------------------------------------
(* C10                                                                      *)

\* the dry run of an upsert has exited after showing its simulated merge
DryMerged(p) == IsDryUpsertDone(p) /\ log[p] # NoLog

\* C10 as stated: the dry run of an upsert whose simulated merge has a FAIL
\* shows the action log and exits 0, as it does when the merge would succeed.
DryRunAlwaysExitsZero ==
    \A p \in Publishers : DryMerged(p) => exit_code[p] = 0

\* C10 amended: the dry run of an upsert shows the action log in both cases, and
\* exits 1 when the simulated merge has a FAIL, 0 when the merge would succeed.
DryRunExitFollowsMerge ==
    \A p \in Publishers :
        (IsDryUpsertDone(p) /\ pc[p] = "done")
        => /\ log[p] = ActionLog(merge_registries(local[p], remote_path[p].dir, repo_version,
                                                   force_entries(p)))
           /\ exit_code[p] = (IF HasFail(log[p]) THEN 1 ELSE 0)

\* a dry run that showed a FAIL and exited 1
DryRunExitFollowsMergeWitness ==
    \E p \in Publishers :
        /\ DryMerged(p) /\ HasFail(log[p])
        /\ exit_code[p] = 1
        /\ ~ output_path[p].set

-----------------------------------------------------------------------------
(* C11                                                                      *)

\* C11: v1 decision table.  Under rule set v1 the result is INSERT when no entry
\* of the name exists; otherwise, with the existing entry being the first of the
\* list, REPLACE of exactly that entry when the candidate's version is NEWER,
\* FAIL when it is SAME and FAIL when it is OLDER; there is no other action.
V1DecisionTable ==
    Decided("v1") =>
        LET new == du_args.local_entry
            existing == du_args.existing
        IN  /\ du_result.action \in {"insert", "replace", "fail"}
            /\ du_result.new_entry = new
            /\ existing = <<>> => du_result.action = "insert" /\ du_result.replaced_entries = <<>>
            /\ existing # <<>> =>
                  LET cmp == compare_versions(new.version, existing[1].version)
                  IN  /\ cmp = "newer" => /\ du_result.action = "replace"
                                          /\ du_result.replaced_entries = <<existing[1]>>
                      /\ cmp = "same" => du_result.action = "fail"
                      /\ cmp = "older" => du_result.action = "fail"
                      /\ du_result.action # "insert"

\* an upgrade over an entry whose version is spelled 1.0
V1DecisionTableWitness ==
    /\ Decided("v1")
    /\ du_args.local_entry.version = V_110
    /\ Len(du_args.existing) = 1 /\ du_args.existing[1].version = V_10
    /\ du_result.action = "replace"
    /\ du_result.replaced_entries = du_args.existing

-----------------------------------------------------------------------------
(* C12                                                                      *)

\* the existing entry e makes the v2 decision for the candidate new a FAIL
Offending(new, e) ==
    \/ e.kamiwaza_version = NoConstraint
    \/ /\ e.kamiwaza_version # NoConstraint
       /\ LET rel == compare_constraints(new.kamiwaza_version, e.kamiwaza_version)
          IN  \/ rel \in {"subset", "partial"}
              \/ rel = "same" /\ compare_versions(new.version, e.version) \in {"same", "older"}

\* every reordering of a list
Reorderings(l) ==
    { [i \in 1..Len(l) |-> l[f[i]]] :
         f \in { g \in [1..Len(l) -> 1..Len(l)] : \A i, j \in 1..Len(l) : g[i] = g[j] => i = j } }

\* C12: v2 rejection conditions.  Under rule set v2 the decision is FAIL exactly
\* when the candidate has no constraint, or some existing entry has none, or for
\* some existing entry compare_constraints(candidate, existing) is SUBSET, or
\* PARTIAL, or SAME with the candidate's version SAME or OLDER; the action is
\* the same for every order of the existing entries.
V2RejectionConditions ==
    Decided("v2") =>
        LET new == du_args.local_entry
            existing == du_args.existing
        IN  /\ (du_result.action = "fail") <=>
                  \/ new.kamiwaza_version = NoConstraint
                  \/ /\ new.kamiwaza_version # NoConstraint
                     /\ \E i \in 1..Len(existing) : Offending(new, existing[i])
            /\ \A l \in Reorderings(existing) :
                  determine_upsert_action_v2(new, l).action = du_result.action

\* the offending entry comes second, after an entry the candidate would replace
V2RejectionConditionsWitness ==
    /\ Decided("v2")
    /\ du_args.local_entry.kamiwaza_version # NoConstraint
    /\ Len(du_args.existing) = 2
    /\ du_args.existing[1].kamiwaza_version # NoConstraint
    /\ compare_constraints(du_args.local_entry.kamiwaza_version,
                           du_args.existing[1].kamiwaza_version) = "superset"
    /\ du_args.existing[2].kamiwaza_version # NoConstraint
    /\ compare_constraints(du_args.local_entry.kamiwaza_version,
                           du_args.existing[2].kamiwaza_version) = "partial"
    /\ du_result.action = "fail"

-----------------------------------------------------------------------------
(* C13                                                                      *)

\* the existing entry e is one the candidate new takes the place of
Superseded(new, e) ==
    LET rel == compare_constraints(new.kamiwaza_version, e.kamiwaza_version)
    IN  \/ rel = "superset"
        \/ rel = "same" /\ compare_versions(new.version, e.version) = "newer"

\* no FAIL condition of rule set v2 holds for the call
V2Accepts ==
    /\ Decided("v2")
    /\ du_args.local_entry.kamiwaza_version # NoConstraint
    /\ \A i \in 1..Len(du_args.existing) : ~ Offending(du_args.local_entry, du_args.existing[i])

\* C13: v2 accept outcomes.  When nothing triggers a FAIL, with M the existing
\* entries for which compare_constraints(candidate, existing) is SUPERSET, or
\* SAME with the candidate's version NEWER: the action is REPLACE with replaced
\* entries exactly M when M is not empty, INSERT with none replaced when it is;
\* a DISJOINT entry is never replaced and is in the merged list with the candidate.
V2AcceptOutcomes ==
    V2Accepts =>
        LET new == du_args.local_entry
            existing == du_args.existing
            M == SelectSeq(existing, LAMBDA e : Superseded(new, e))
            merged == merge_entries(<<new>>, existing, "v2", du_args.force_entries)
        IN  /\ M # <<>> => du_result.action = "replace" /\ du_result.replaced_entries = M
            /\ M = <<>> => du_result.action = "insert" /\ du_result.replaced_entries = <<>>
            /\ \A i \in 1..Len(existing) :
                  compare_constraints(new.kamiwaza_version, existing[i].kamiwaza_version)
                     = "disjoint"
                  => /\ existing[i] \notin SeqRange(du_result.replaced_entries)
                     /\ existing[i] \in SeqRange(merged.merged_entries)
            /\ merged.success
            /\ new \in SeqRange(merged.merged_entries)

\* a REPLACE of one entry next to a disjoint one that stays
V2AcceptOutcomesWitness ==
    /\ V2Accepts
    /\ Len(du_args.existing) = 2
    /\ compare_constraints(du_args.local_entry.kamiwaza_version,
                           du_args.existing[1].kamiwaza_version) = "disjoint"
    /\ compare_constraints(du_args.local_entry.kamiwaza_version,
                           du_args.existing[2].kamiwaza_version) = "same"
    /\ du_result.action = "replace"
    /\ du_result.replaced_entries = <<du_args.existing[2]>>

-----------------------------------------------------------------------------
(* C14                                                                      *)

\* C14: force override.  A candidate whose name is in the force set is decided
\* INSERT when no entry of the name exists and otherwise REPLACE of all existing
\* entries of the name, never FAIL, in either format; a candidate whose name is
\* not in the force set gets the decision of the v1 or v2 rules, and its FAIL
\* fails the merge.
ForceOverride ==
    du_called =>
        LET new == du_args.local_entry
            existing == du_args.existing
            merged == merge_entries(<<new>>, existing, du_args.garden_version,
                                    du_args.force_entries)
        IN  IF new.name \in du_args.force_entries
            THEN /\ du_result.action # "fail"
                 /\ existing = <<>> =>
                       du_result.action = "insert" /\ du_result.replaced_entries = <<>>
                 /\ existing # <<>> =>
                       du_result.action = "replace" /\ du_result.replaced_entries = existing
                 /\ merged.success
            ELSE /\ du_result = (IF du_args.garden_version = "v1"
                                 THEN determine_upsert_action_v1(new, existing)
                                 ELSE determine_upsert_action_v2(new, existing))
                 /\ du_result.action = "fail" => ~ merged.success

\* a forced v2 candidate without a constraint, a downgrade, over two entries one
\* of which has no constraint either
ForceOverrideWitness ==
    /\ du_called
    /\ du_args.garden_version = "v2"
    /\ du_args.local_entry.name \in du_args.force_entries
    /\ du_args.local_entry.kamiwaza_version = NoConstraint
    /\ du_args.local_entry.version = V_100
    /\ Len(du_args.existing) = 2
    /\ du_args.existing[1].version = V_110
    /\ du_args.existing[2].kamiwaza_version = NoConstraint
    /\ du_result.action = "replace"
    /\ du_result.replaced_entries = du_args.existing

-----------------------------------------------------------------------------
(* A catalog under a sequence of publishes: each successful merge_entries   *)
(* result becomes the remote list of the next                               *)

MaxCatalog == 3   \* longest catalog

\* the entries published to the catalog: two versions of "a" and one of "b" under v1;
\* under v2 constraints of "a" that are the same, wider and disjoint
CatalogEntries(version) ==
    IF version = "v1"
    THEN { Entry("a", V_100, NoConstraint), Entry("a", V_110, NoConstraint),
           Entry("b", V_100, NoConstraint) }
    ELSE { Entry("a", V_100, C_08_09), Entry("a", V_110, C_08_09),
           Entry("a", V_110, C_08_10), Entry("a", V_100, C_09_10) }

CatalogInit ==
    /\ m_version \in {"v1", "v2"}
    /\ m_remote = <<>>
    /\ m_local = <<>>
    /\ m_force = {}
    /\ m_result = NoResult
    /\ m_called = FALSE
    /\ CompareIdle
    /\ WorkflowIdle

\* one publish of a local list that passes validate_entry: the merged list is
\* saved and becomes the catalog when the merge succeeds
MergeAndSave ==
    /\ \E batch \in BoundedSeq(CatalogEntries(m_version), MaxBatch), force \in ForceSets :
          /\ \A i \in 1..Len(batch) : validate_entry(batch[i], m_version) = <<>>
          /\ \E r \in { merge_entries(batch, m_remote, m_version, force) } :
                /\ Len(r.merged_entries) <= MaxCatalog
                /\ m_local' = batch
                /\ m_force' = force
                /\ m_result' = r
                /\ m_remote' = IF r.success THEN save_registry_json(r.merged_entries).entries
                               ELSE m_remote
    /\ m_called' = TRUE
    /\ UNCHANGED <<m_version, cvars, wvars>>

CatalogNext == MergeAndSave

SpecCatalog == CatalogInit /\ [][CatalogNext]_vars

\* two entries of the list at different positions
Pairs(l) == { <<i, j>> \in (1..Len(l)) \X (1..Len(l)) : i < j }

-----------------------------------------------------------------------------
(* C15                                                                      *)

\* C15: v1 catalog invariant.  After any sequence of successful v1 merges,
\* batches with several candidates of one name included, the catalog holds at
\* most one entry per name.
V1OneEntryPerName ==
    m_version = "v1" =>
        \A ij \in Pairs(m_remote) : m_remote[ij[1]].name # m_remote[ij[2]].name

-----------------------------------------------------------------------------
(* C16                                                                      *)

\* C16: v2 catalog invariant.  After any sequence of successful v2 merges,
\* batches with several candidates of one name and forced names included, any
\* two catalog entries of one name have DISJOINT constraints.
V2SameNameDisjoint ==
    m_version = "v2" =>
        \A ij \in Pairs(m_remote) :
            m_remote[ij[1]].name = m_remote[ij[2]].name =>
                /\ m_remote[ij[1]].kamiwaza_version # NoConstraint
                /\ m_remote[ij[2]].kamiwaza_version # NoConstraint
                /\ compare_constraints(m_remote[ij[1]].kamiwaza_version,
                                       m_remote[ij[2]].kamiwaza_version) = "disjoint"

-----------------------------------------------------------------------------
(* C17                                                                      *)

\* C17: constraint relationship symmetry.  compare_constraints(c1, c2) is
\* SUPERSET exactly when compare_constraints(c2, c1) is SUBSET, and the other
\* way round; SAME, DISJOINT and PARTIAL are each returned for (c1, c2) exactly
\* when they are returned for (c2, c1).
ConstraintSymmetry ==
    cc_result # "" =>
        \E back \in { compare_constraints(cc_c2, cc_c1) } :
            /\ (cc_result = "superset") <=> (back = "subset")
            /\ (cc_result = "subset") <=> (back = "superset")
            /\ (cc_result = "same") <=> (back = "same")
            /\ (cc_result = "disjoint") <=> (back = "disjoint")
            /\ (cc_result = "partial") <=> (back = "partial")

\* ">=0.8.0,<0.9.0" against ">=0.8.0,<1.0.0": SUBSET one way, SUPERSET the other
ConstraintSymmetryWitness ==
    /\ cc_c1 = C_08_09
    /\ cc_c2 = C_08_10
    /\ cc_result = "subset"
    /\ compare_constraints(cc_c2, cc_c1) = "superset"

-----------------------------------------------------------------------------
(* C18                                                                      *)

\* C18: constraint classification.  With s1 and s2 the membership sets of c1
\* and c2 over the sampled lattice, compare_constraints(c1, c2) is SAME exactly
\* when s1 = s2 (both empty included); otherwise DISJOINT exactly when they
\* share no version; otherwise SUPERSET exactly when s1 strictly contains s2;
\* otherwise SUBSET exactly when s2 strictly contains s1; otherwise PARTIAL.
\* Past the SAME check the two is_superset tests are never both true.
ConstraintClassification ==
    cc_result # "" =>
        \E s1 \in { parse_constraint(cc_c1) }, s2 \in { parse_constraint(cc_c2) } :
            /\ cc_result \in {"same", "disjoint", "superset", "subset", "partial"}
            /\ (cc_result = "same") <=> (s1 = s2)
            /\ (cc_result = "disjoint") <=> (s1 # s2 /\ s1 \cap s2 = {})
            /\ (cc_result = "superset") <=>
                  (s1 # s2 /\ s1 \cap s2 # {} /\ s2 \subseteq s1)
            /\ (cc_result = "subset") <=>
                  (s1 # s2 /\ s1 \cap s2 # {} /\ s1 \subseteq s2)
            /\ (cc_result = "partial") <=>
                  (s1 \cap s2 # {} /\ ~ (s2 \subseteq s1) /\ ~ (s1 \subseteq s2))
            /\ cc_result # "same" => ~ (is_superset(cc_c1, cc_c2) /\ is_superset(cc_c2, cc_c1))

\* two different constraints that no sampled version satisfies compare SAME
ConstraintClassificationWitness ==
    /\ cc_c1 = C_none
    /\ cc_c2 = C_ge5
    /\ parse_constraint(cc_c1) = {}
    /\ parse_constraint(cc_c2) = {}
    /\ cc_result = "same"

-----------------------------------------------------------------------------
(* C19                                                                      *)

LiveRemove(p) == mode[p] = "remove" /\ ~ dry_run[p] /\ pc[p] # "idle"

\* the list without its entries of that name, the others in their order
Without(entries, name) == SelectSeq(entries, LAMBDA e : e.name # name)

\* C19: removal result and rollback.  A live remove that went through to a
\* passing verification exits 0 and leaves apps.json and tools.json of the remote
\* equal to the downloaded lists without the entries of the requested name, the
\* other entries in their order.  A live remove whose upload or verification
\* failed exits 1 after restore_backup of the backup taken in that run and
\* release_lock: when the restore sync mirrored the backup, the remote catalog is
\* the backup, and when the marker's delete succeeded, no marker is left.
RemovalResultAndRollback ==
    \A p \in Publishers :
        (LiveRemove(p) /\ Exited(p)) =>
            /\ Did(p, "verify_ok") =>
                  /\ exit_code[p] = 0
                  /\ remote_path[p].set
                  /\ load_registry_json(remote.apps)
                        = Without(load_registry_json(remote_path[p].dir.apps), rm_name[p])
                  /\ load_registry_json(remote.tools)
                        = Without(load_registry_json(remote_path[p].dir.tools), rm_name[p])
            /\ (Did(p, "upload_err") \/ Did(p, "verify_err") \/ Did(p, "verify_mismatch")) =>
                  /\ exit_code[p] = 1
                  /\ backup_path[p].set
                  /\ Restored(p)
                  /\ Released(p)
                  /\ Did(p, "restore_ok") => Catalog(remote) = Catalog(backup_path[p].dir)
                  /\ Did(p, "release_ok") => ~ remote.lock.present

\* "a" removed from between "b" and "d" in apps.json, and from tools.json
RemovalResultAndRollbackWitness ==
    \E p \in Publishers :
        /\ LiveRemove(p) /\ Exited(p)
        /\ rm_name[p] = "a"
        /\ Did(p, "verify_ok")
        /\ remote_path[p].dir.apps = File(<<B1, A1, D1>>)
        /\ remote_path[p].dir.tools = File(<<A1>>)
        /\ remote.apps = File(<<B1, D1>>)
        /\ remote.tools = File(<<>>)
        /\ exit_code[p] = 0

-----------------------------------------------------------------------------
(* C20                                                                      *)

\* every step of a live upsert went through, no store call of it failing
AllStepsPassed(p) ==
    /\ validate_local_registry(local[p], repo_version) = <<>>
    /\ LockPut(p)
    /\ Did(p, "download_ok")
    /\ ~ HasFail(log[p])
    /\ Did(p, "upload_ok") \/ Did(p, "upload_silent")
    /\ Did(p, "verify_ok")

\* C20: exit status of a live upsert.  The run exits 0 exactly when the local
\* validation passed, the lock was acquired, the download, the upload and the
\* verification went through and the merge had no FAIL; in every other case, a
\* failed store call among them, it exits non-zero, and by then restore_backup
\* has been called if a backup was taken and release_lock has been called if
\* the lock was acquired.
ExitStatusOfLiveUpsert ==
    \A p \in Publishers :
        (LiveUpsert(p) /\ Exited(p)) =>
            /\ exit_code[p] \in {0, 1}
            /\ (exit_code[p] = 0) <=> AllStepsPassed(p)
            /\ exit_code[p] # 0 =>
                  /\ LockPut(p) => Released(p)
                  /\ backup_path[p].set => Restored(p)

-----------------------------------------------------------------------------
(* C21                                                                      *)

\* C21: merged catalog construction.  One action record is produced per
\* candidate, in batch order.  When the merge succeeds, the merged list is the
\* remote snapshot's entries in their order, without every entry whose
\* (name, version, constraint) key is in the replaced set of some REPLACE action,
\* followed by every candidate of the batch in batch order; every remote entry
\* whose name is not in the batch is present.
MergedCatalogConstruction ==
    m_called =>
        /\ Len(m_result.actions) = Len(m_local)
        /\ \A i \in 1..Len(m_local) :
              /\ m_result.actions[i].name = m_local[i].name
              /\ m_result.actions[i].new_entry = m_local[i]
        /\ m_result.success =>
              \E keys \in { UNION { { EntryKey(r) : r \in SeqRange(m_result.actions[i].replaced_entries) } :
                                    i \in { j \in 1..Len(m_result.actions) :
                                               m_result.actions[j].action = "replace" } } } :
                 /\ m_result.merged_entries
                       = SelectSeq(m_remote, LAMBDA e : EntryKey(e) \notin keys) \o m_local
                 /\ \A k \in 1..Len(m_remote) :
                       (\A i \in 1..Len(m_local) : m_local[i].name # m_remote[k].name)
                       => m_remote[k] \in SeqRange(m_result.merged_entries)

\* a v2 merge that replaces the second remote entry and keeps the first, of the
\* same name, next to an entry of another name
MergedCatalogConstructionWitness ==
    /\ m_called
    /\ m_version = "v2"
    /\ m_remote = << Entry("a", V_100, C_09_10), Entry("a", V_100, C_08_09) >>
    /\ m_local = << Entry("b", V_100, C_08_09), Entry("a", V_110, C_08_09) >>
    /\ m_force = {}
    /\ m_result.success
    /\ m_result.merged_entries
          = << Entry("a", V_100, C_09_10), Entry("b", V_100, C_08_09), Entry("a", V_110, C_08_09) >>

-----------------------------------------------------------------------------
(* C22                                                                      *)

UploadNotes == {"upload_ok", "upload_silent", "upload_err"}
VerifyNotes == {"verify_ok", "verify_mismatch", "verify_err"}

\* the steps a live upsert has behind it when it is at, or past, its upload
ReadyToUpload(p) ==
    /\ \E i, k \in 1..Len(ops[p]) :
          /\ i < k
          /\ ops[p][i] \in {"lock_put", "lock_put_over"}
          /\ ops[p][k] \in {"download_ok", "download_err"}
          /\ \A j \in 1..Len(ops[p]) : ops[p][j] \in UploadNotes => k < j
    /\ backup_path[p].set /\ remote_path[p].set
    /\ output_path[p].set
    /\ ~ HasFail(log[p])

StepOrderInvariant ==
    \A p \in Publishers :
        LiveUpsert(p) =>
            /\ (pc[p] = "upload" \/ Uploaded(p)) => ReadyToUpload(p)
            /\ pc[p] \in {"upload", "verify", "release", "release_rm"} => lock_acquired[p]
            /\ \A j \in 1..Len(ops[p]) :
                  ops[p][j] \in VerifyNotes =>
                     j > 1 /\ ops[p][j - 1] \in {"upload_ok", "upload_silent"}
            /\ pc[p] = "verify" => ops[p][Len(ops[p])] \in {"upload_ok", "upload_silent"}
            /\ pc[p] \in {"release", "release_rm"} => ops[p][Len(ops[p])] = "verify_ok"

StepOrderAction ==
    \A p \in Publishers :
        (LiveUpsert(p) /\ pc[p] # "done") =>
            /\ Catalog(remote') # Catalog(remote) =>
                  \/ pc[p] = "upload" /\ ReadyToUpload(p)
                  \/ pc[p] = "restore" /\ Uploaded(p)
            /\ backup_path[p].set => backup_path'[p] = backup_path[p]

\* C22: workflow step ordering.  In a live upsert the remote catalog is first
\* changed by the upload, which comes after the lock was acquired, the remote
\* downloaded and backed up, and the merge succeeded (a restore changes it only
\* after an upload); the verification follows a returned upload; the
\* success-path release follows a passed verification; and the backup of the
\* run is not changed afterwards.
WorkflowStepOrdering == []StepOrderInvariant /\ [][StepOrderAction]_vars

-----------------------------------------------------------------------------
(* C23                                                                      *)

LiveRun(p) == ~ dry_run[p] /\ pc[p] # "idle"

\* the file is on both sides with the same content, or on neither
SameFile(a, b) == a.present = b.present /\ (a.present => a.entries = b.entries)

LastOp(p) == IF ops[p] = <<>> THEN "" ELSE ops[p][Len(ops[p])]

\* C23: verification decides rollback.  verify_upload passes exactly when each
\* of apps.json and tools.json is in the uploaded directory and in the copy
\* downloaded again with the same content, or in neither; a run whose
\* verification reported a mismatch, or whose second download failed, goes to
\* restore_backup and release_lock, exits non-zero and never reports success.
VerificationDecidesRollback ==
    \A p \in Publishers :
        LiveRun(p) =>
            /\ (pc[p] = "release" /\ LastOp(p) = "verify_ok") =>
                  /\ SameFile(output_path[p].dir.apps, remote.apps)
                  /\ SameFile(output_path[p].dir.tools, remote.tools)
            /\ LastOp(p) = "verify_mismatch" =>
                  /\ pc[p] = "restore"
                  /\ ~ (/\ SameFile(output_path[p].dir.apps, remote.apps)
                        /\ SameFile(output_path[p].dir.tools, remote.tools))
            /\ LastOp(p) = "verify_err" => pc[p] = "restore"
            /\ (Did(p, "verify_mismatch") \/ Did(p, "verify_err")) =>
                  /\ had_error[p]
                  /\ ~ Did(p, "verify_ok")
                  /\ pc[p] \notin {"release", "release_rm"}
                  /\ Exited(p) => exit_code[p] = 1 /\ Restored(p) /\ Released(p)

\* apps.json arrived and tools.json did not: a mismatch, on its way to the restore
VerificationDecidesRollbackWitness ==
    \E p \in Publishers :
        /\ LiveRun(p)
        /\ pc[p] = "restore"
        /\ LastOp(p) = "verify_mismatch"
        /\ SameFile(output_path[p].dir.apps, remote.apps)
        /\ output_path[p].dir.tools.present
        /\ ~ remote.tools.present

-----------------------------------------------------------------------------
(* C24                                                                      *)

\* the entry is one the validation has to report
InvalidEntry(e, garden_version) ==
    \/ e.version = <<>>
    \/ garden_version = "v2" /\ e.kamiwaza_version = NoConstraint

\* the errors reported for the entry at position i (from 1) of the named file
ErrorsAt(errs, file_name, i) ==
    { k \in 1..Len(errs) : errs[k][1] = file_name /\ errs[k][2] = i - 1 }

\* C24: validation is batched and precedes locking.  validate_local_registry
\* reports an error for every invalid entry of apps.json and of tools.json, and
\* none for a valid one; a live upsert whose local registry has an error exits
\* non-zero without acquiring the lock and without any call on the remote store.
ValidationBatchedBeforeLock ==
    \A p \in Publishers :
        (mode[p] = "upsert" /\ pc[p] # "idle") =>
            \E errs \in { validate_local_registry(local[p], repo_version) } :
                /\ \A i \in 1..Len(local[p].apps.entries) :
                      InvalidEntry(local[p].apps.entries[i], repo_version)
                         <=> ErrorsAt(errs, "apps.json", i) # {}
                /\ \A i \in 1..Len(local[p].tools.entries) :
                      InvalidEntry(local[p].tools.entries[i], repo_version)
                         <=> ErrorsAt(errs, "tools.json", i) # {}
                /\ (errs # <<>> /\ ~ dry_run[p]) =>
                      /\ pc[p] \in {"validate", "finally", "done"}
                      /\ ops[p] = <<>>
                      /\ ~ lock_acquired[p]
                      /\ remote = start_remote[p]
                      /\ pc[p] = "done" => exit_code[p] = 1

\* a local registry with an invalid entry in each file, in a run that has exited
ValidationBatchedBeforeLockWitness ==
    \E p \in Publishers :
        /\ LiveUpsert(p) /\ Exited(p)
        /\ local[p] = Dir(File(<<BadVersion, A1>>), File(<<B1, BadBoth>>), NoMarker)
        /\ repo_version = "v2"
        /\ Len(validate_local_registry(local[p], repo_version)) = 3
        /\ ops[p] = <<>>
        /\ exit_code[p] = 1

-----------------------------------------------------------------------------
(* C25                                                                      *)

\* C25: lock marker presence during the critical section.  In a live run, from
\* the return of acquire_lock until the run's call of release_lock, the marker
\* object is in the remote store in every state, the states after
\* upload_registry and after restore_backup included.
MarkerPresentWhileHeld ==
    \A p \in Publishers : (LiveRun(p) /\ Holding(p)) => remote.lock.present

-----------------------------------------------------------------------------
(* C26                                                                      *)

\* the step is the delete of a release_lock call of p: on the success path or in
\* the cleanup
ReleaseStepOf(p) ==
    \/ pc[p] = "release_rm" /\ pc'[p] = "finally"
    \/ pc[p] = "finally_rm" /\ pc'[p] = "done"

\* C26: a workflow only removes its own lock.  In any interleaving of live runs
\* on one catalog, a release_lock call of a run never deletes a marker that a
\* different run wrote.
ReleaseOnlyOwnMarker ==
    [][\A p \in Publishers :
          (ReleaseStepOf(p) /\ remote.lock.present /\ ~ remote'.lock.present)
          => remote.lock.owner = p]_vars

-----------------------------------------------------------------------------
(* C27                                                                      *)

\* the run of p is a live upsert that has its merge behind it
Merged(p) ==
    /\ LiveUpsert(p)
    /\ LiveDownloaded(p)
    /\ pc[p] # "merge"

FailIn(l) == \E i \in 1..Len(l) : l[i][2] = "fail"

\* C27: both sub-catalogs succeed or neither is written.  merge_registries
\* writes the merged apps.json and tools.json to the output directory only when
\* the apps merge and the tools merge both succeeded; when either has a FAIL
\* nothing is written, the success flag is false, and the live run uploads
\* neither sub-catalog.
BothOrNeitherWritten ==
    \A p \in Publishers :
        Merged(p) =>
            \E apps \in { merge_entries(load_registry_json(local[p].apps),
                                        load_registry_json(remote_path[p].dir.apps),
                                        repo_version, force_entries(p)) },
               tools \in { merge_entries(load_registry_json(local[p].tools),
                                         load_registry_json(remote_path[p].dir.tools),
                                         repo_version, force_entries(p)) } :
                /\ apps.success <=> ~ FailIn(log[p][1])
                /\ tools.success <=> ~ FailIn(log[p][2])
                /\ IF apps.success /\ tools.success
                   THEN /\ output_path[p].set
                        /\ output_path[p].dir.apps = File(apps.merged_entries)
                        /\ output_path[p].dir.tools = File(tools.merged_entries)
                   ELSE /\ ~ output_path[p].set
                        /\ had_error[p]
                        /\ ~ Uploaded(p)
                        /\ pc[p] \in {"restore", "finally", "finally_rm", "done"}

\* the tools merge succeeded and the apps merge did not: nothing written or uploaded
BothOrNeitherWrittenWitness ==
    \E p \in Publishers :
        /\ Merged(p) /\ Exited(p)
        /\ FailIn(log[p][1])
        /\ log[p][2] # <<>> /\ ~ FailIn(log[p][2])
        /\ ~ output_path[p].set
        /\ ~ Uploaded(p)
        /\ exit_code[p] = 1

-----------------------------------------------------------------------------
(* C28                                                                      *)

EntriesNamed(catalog, name) == { catalog[i] : i \in { j \in 1..Len(catalog) : catalog[j].name = name } }

Names(catalog) == { catalog[i].name : i \in 1..Len(catalog) }

\* C28: no downgrade over time (v1).  From one catalog to the next, over
\* successful v1 merges, for every name that is not forced: a name that was
\* present stays present, and the highest version of the name does not
\* decrease.
NoDowngradeV1 ==
    [][(m_version = "v1" /\ m_result'.success) =>
          \A name \in Names(m_remote) \ m_force' :
             \A e \in EntriesNamed(m_remote, name) :
                \E later \in EntriesNamed(m_remote', name) :
                   compare_versions(later.version, e.version) \in {"newer", "same"}]_vars

\* 1.0.0 of "a" replaced by 1.1.0, next to "b", nothing forced
NoDowngradeV1Witness ==
    /\ m_called
    /\ m_version = "v1"
    /\ m_force = {}
    /\ m_result.success
    /\ m_local = << Entry("a", V_110, NoConstraint) >>
    /\ m_result.actions[1].action = "replace"
    /\ m_result.actions[1].replaced_entries = << Entry("a", V_100, NoConstraint) >>
    /\ m_remote = << Entry("b", V_100, NoConstraint), Entry("a", V_110, NoConstraint) >>

-----------------------------------------------------------------------------
(* C29                                                                      *)

\* the sampled host versions that some entry of the name in the catalog matches
Supported(catalog, name) ==
    UNION { parse_constraint(e.kamiwaza_version) :
               e \in { x \in EntriesNamed(catalog, name) : x.kamiwaza_version # NoConstraint } }

\* C29: the supported range never narrows (v2).  From one catalog to the next,
\* over successful v2 merges, for every name that is not forced, the sampled
\* host versions matched by some entry of the name after the merge include
\* those matched before it.
SupportedRangeNeverNarrowsV2 ==
    [][(m_version = "v2" /\ m_result'.success) =>
          \A name \in Names(m_remote) \ m_force' :
             Supported(m_remote, name) \subseteq Supported(m_remote', name)]_vars

\* ">=0.8.0,<0.9.0" of "a" replaced by ">=0.8.0,<1.0.0", nothing forced
SupportedRangeNeverNarrowsV2Witness ==
    /\ m_called
    /\ m_version = "v2"
    /\ m_force = {}
    /\ m_result.success
    /\ m_local = << Entry("a", V_110, C_08_10) >>
    /\ m_result.actions[1].action = "replace"
    /\ m_result.actions[1].replaced_entries = << Entry("a", V_100, C_08_09) >>
    /\ m_remote = << Entry("a", V_110, C_08_10) >>

-----------------------------------------------------------------------------
(* C30                                                                      *)

\* a live remove that has exited after its download found no entry of the name
NoMatchExit(p) ==
    /\ LiveRemove(p) /\ Exited(p)
    /\ LiveDownloaded(p)
    /\ TotalMatching(remote_path[p].dir, rm_name[p]) = 0

\* a live remove that has exited after the operator declined at the prompt
DeclinedExit(p) ==
    /\ LiveRemove(p) /\ Exited(p)
    /\ LiveDownloaded(p)
    /\ TotalMatching(remote_path[p].dir, rm_name[p]) > 0
    /\ ~ output_path[p].set

\* C30: remove aborts cleanly.  A live remove that acquired the lock and then
\* found no entry of the requested name, or whose operator did not confirm,
\* makes no upload and no restore and leaves the remote catalog as it was, calls
\* release_lock and removes its working directory before it exits; it exits
\* non-zero when nothing matched and zero when the operator declined.
RemoveAbortsCleanly ==
    \A p \in Publishers :
        (NoMatchExit(p) \/ DeclinedExit(p)) =>
            /\ LockPut(p)
            /\ ~ Uploaded(p)
            /\ ~ Restored(p)
            /\ Catalog(remote) = Catalog(start_remote[p])
            /\ Released(p)
            /\ ~ work_dir[p]
            /\ NoMatchExit(p) => exit_code[p] = 1
            /\ DeclinedExit(p) => exit_code[p] = 0

\* no entry named "zz" in a catalog of three extensions: exit 1, marker removed
RemoveAbortsCleanlyWitness ==
    \E p \in Publishers :
        /\ NoMatchExit(p)
        /\ rm_name[p] = "zz"
        /\ remote_path[p].dir.apps = File(<<B1, A1, D1>>)
        /\ ops[p] = <<"check_absent", "lock_put", "download_ok", "release_ok">>
        /\ ~ remote.lock.present
        /\ exit_code[p] = 1

====
